---- MODULE Spec2Model ----
(***************************************************************************)
(* Command registry and dispatcher of the chat bridge                      *)
(* (src/immp/hook/command.py): command discovery on hooks, resolution of   *)
(* the commands usable in a channel for a user under the group             *)
(* configuration, argument parsing and arity validation, and the dispatch  *)
(* of a received message to a command.                                     *)
(*                                                                         *)
(* Strings are sequences of one-character strings.  Command names are one  *)
(* letter long so that a whole invocation fits in MaxTextLen characters    *)
(* (CommandHook.help, registered as "help" in the source, is "h" here).    *)
(***************************************************************************)
EXTENDS Integers, Sequences, FiniteSets, TLC

VARIABLES
    hookState,  \* hook name -> OpenState of that hook (Openable.state)
    config,     \* CommandHook.config, fixed at construction
    pc,         \* "idle": between calls; "returned": a call has completed
    call,       \* the arguments of the last completed call
    result,     \* what the last completed call returned or raised
    outbox,     \* messages sent to channels by the last call, in order
    ran,        \* command bodies invoked by the last call, in order
    logged,     \* exceptions the last call logged
    net         \* the transport: its fields, the sessions and sockets it
                \* opened, and where its get() is suspended

vars == <<hookState, config, pc, call, result, outbox, ran, logged, net>>

None == "None"

(***************************************************************************)
(* Bounds                                                                  *)
(***************************************************************************)
MaxTextLen == 4   \* longest message text delivered to on_receive
MaxParams == 4    \* longest parameter list of a command signature
MaxArgs == 5      \* most arguments passed to Command.valid
MaxSegments == 3  \* most segments of a rich text given to to_mrkdwn
MaxMrkdwnLen == 5 \* longest text given to from_mrkdwn
MaxEntities == 2  \* most entities given to from_entities
MaxOpened == 3    \* most sessions and sockets a transport opens in a run
MaxUpdateId == 2  \* largest update_id Telegram hands out
MaxFiles == 2     \* most file attachments of a message given to put

(***************************************************************************)
(* Python string operations used by the dispatcher                         *)
(***************************************************************************)
Chars == {"!", "h", "q", "Q", " ", "'"}

Texts == UNION {[1..n -> Chars] : n \in 0..MaxTextLen}

\* str.isspace for one character
IsSpace(c) == c = " "

\* str.lower, one character
LowerChar(c) == IF c = "Q" THEN "q" ELSE c

\* str.lower
Lower(s) == [i \in 1..Len(s) |-> LowerChar(s[i])]

\* str.startswith
StartsWith(s, p) == Len(p) <= Len(s) /\ SubSeq(s, 1, Len(p)) = p

\* s[n:]
Drop(s, n) == SubSeq(s, n + 1, Len(s))

\* str.lstrip() for whitespace
RECURSIVE LStrip(_)
LStrip(s) == IF s # <<>> /\ IsSpace(Head(s)) THEN LStrip(Tail(s)) ELSE s

\* length of the leading run of non-whitespace characters
RECURSIVE WordLen(_)
WordLen(s) == IF s = <<>> \/ IsSpace(Head(s)) THEN 0 ELSE 1 + WordLen(Tail(s))

\* str.split(): the whitespace-separated words, none of them empty
RECURSIVE Split(_)
Split(s) ==
    LET t == LStrip(s)
        n == WordLen(t)
    IN  IF t = <<>> THEN <<>>
        ELSE <<SubSeq(t, 1, n)>> \o Split(Drop(t, n))

\* str.split(maxsplit=1): the first word, then the rest with its leading
\* whitespace removed (and its trailing whitespace kept) when not empty
SplitMax1(s) ==
    LET t == LStrip(s)
        n == WordLen(t)
        rest == LStrip(Drop(t, n))
    IN  IF t = <<>> THEN <<>>
        ELSE IF rest = <<>> THEN <<SubSeq(t, 1, n)>>
        ELSE <<SubSeq(t, 1, n), rest>>

\* shlex.split over Chars: whitespace separates words, a single quote opens
\* and closes a quoted run that may hold whitespace.  started says whether a
\* word is in progress (an empty quoted run starts one).  An unclosed quote
\* raises ValueError: [ok |-> FALSE].
RECURSIVE ShlexScan(_, _, _, _, _)
ShlexScan(s, inQuote, started, cur, words) ==
    IF s = <<>> THEN
        IF inQuote THEN [ok |-> FALSE, args |-> <<>>]
        ELSE [ok |-> TRUE, args |-> IF started THEN Append(words, cur) ELSE words]
    ELSE
        LET c == Head(s)
        IN  IF c = "'" THEN ShlexScan(Tail(s), ~inQuote, TRUE, cur, words)
            ELSE IF IsSpace(c) /\ ~inQuote THEN
                ShlexScan(Tail(s), FALSE, FALSE, <<>>,
                          IF started THEN Append(words, cur) ELSE words)
            ELSE ShlexScan(Tail(s), inQuote, TRUE, Append(cur, c), words)

ShlexSplit(s) == ShlexScan(s, FALSE, FALSE, <<>>, <<>>)

(***************************************************************************)
(* Entities: plugs, channels, users, the host's registries                 *)
(***************************************************************************)
Plugs == {"p1", "p2"}

\* A channel is its plug and its source; is_private() is a property of it.
Chan(plug, source, private) ==
    [plug |-> plug, source |-> source, private |-> private]

Direct1 == Chan("p1", "d1", TRUE)
Room1 == Chan("p1", "c1", FALSE)
Direct2 == Chan("p2", "d2", TRUE)
Room2 == Chan("p2", "c2", FALSE)

Channels == {Direct1, Room1, Direct2, Room2}

\* host.channels: label -> Channel
HostChannels == [room2 |-> Room2, direct2 |-> Direct2]

\* A user is its plug (None when not set) and its id.
Usr(plug, id) == [plug |-> plug, id |-> id]

Users == {Usr("p1", "u1"), Usr("p1", "u2"), Usr(None, "u1")}

\* immp.OpenState
OpenStates == {"inactive", "starting", "active", "stopping", "failed"}

\* host.hooks, and the names of the hooks of host.resources
HostHooks == {"cmd", "A"}
HostResources == {"B"}
Hooks == HostHooks \cup HostResources

(***************************************************************************)
(* Command                                                                 *)
(***************************************************************************)
\* One parameter of the command function after self and msg
\* (inspect.Parameter): hasDefault is "default is not Parameter.empty",
\* variadic is "kind is VAR_POSITIONAL".
Param(name, hasDefault, variadic) ==
    [name |-> name, hasDefault |-> hasDefault, variadic |-> variadic]

\* Command.__init__: the name is lower-cased.
Command(name, parser, scope, role, test, params, doc) ==
    [name |-> Lower(name), parser |-> parser, scope |-> scope, role |-> role,
     test |-> test, params |-> params, doc |-> doc]

\* Command.spec: "<name>" for a parameter without default, "[name]" for one
\* with a default, "[name...]" for the variadic one, joined by spaces.
RECURSIVE SpecParts(_)
SpecParts(params) ==
    IF params = <<>> THEN <<>>
    ELSE LET p == Head(params)
             part == IF p.variadic THEN <<"[", p.name, "...", "]">>
                     ELSE IF p.hasDefault THEN <<"[", p.name, "]">>
                     ELSE <<"<", p.name, ">">>
         IN  IF Tail(params) = <<>> THEN part
             ELSE part \o <<" ">> \o SpecParts(Tail(params))

spec(cmd) == SpecParts(cmd.params)

\* Command.parse: [ok |-> FALSE] is ValueError.  trailing is
\* [some |-> FALSE] (None) or [some |-> TRUE, text |-> the string].
parse(cmd, trailing) ==
    IF ~trailing.some \/ trailing.text = <<>> THEN [ok |-> TRUE, args |-> <<>>]
    ELSE IF cmd.parser = "spaces" THEN [ok |-> TRUE, args |-> Split(trailing.text)]
    ELSE IF cmd.parser = "shlex" THEN ShlexSplit(trailing.text)
    ELSE [ok |-> TRUE, args |-> <<trailing.text>>]

\* len([arg for arg in params if arg.default is inspect.Parameter.empty])
CountNoDefault(params) ==
    Cardinality({i \in 1..Len(params) : ~params[i].hasDefault})

\* len([arg for arg in params if arg.kind is inspect.Parameter.VAR_POSITIONAL])
CountVariadic(params) ==
    Cardinality({i \in 1..Len(params) : params[i].variadic})

\* Command.valid that counts the variadic parameter as a required one.
ValidNoVarargsFix(params, nargs) ==
    /\ ~(nargs < CountNoDefault(params))
    /\ ~(nargs > Len(params) /\ CountVariadic(params) = 0)

\* Command.valid on a parameter list and a number of arguments:
\* TRUE when it returns, FALSE when it raises ValueError.
ValidArity(params, nargs) ==
    LET required == CountNoDefault(params) - CountVariadic(params)
    IN  ~(nargs < required) /\ ~(nargs > Len(params) /\ CountVariadic(params) = 0)

valid(cmd, args) == ValidArity(cmd.params, Len(args))

(***************************************************************************)
(* The hooks of the host and the commands their classes declare            *)
(***************************************************************************)
\* The feature a test predicate looks at on its hook.
HasFeature == [cmd |-> FALSE, A |-> TRUE, B |-> FALSE]

\* Command.test called on the hook
TestPredicate(test, hook) == test = "has_feature" /\ HasFeature[hook]

\* The commands found among the attributes of a hook, in dir() order.
HookCommands ==
    [cmd |-> << Command(<<"h">>, "spaces", "anywhere", "anyone", None,
                        <<Param("command", TRUE, FALSE)>>, "List commands") >>,
     A   |-> << Command(<<"a">>, "spaces", "anywhere", "admin", None,
                        <<Param("who", FALSE, FALSE), Param("rest", FALSE, TRUE)>>, None),
                Command(<<"h">>, "none", "anywhere", "anyone", None,
                        <<Param("topic", TRUE, FALSE)>>, "Help of A"),
                Command(<<"p">>, "spaces", "private", "anyone", None, <<>>, None),
                Command(<<"t">>, "spaces", "anywhere", "anyone", "has_feature",
                        <<>>, None) >>,
     B   |-> << Command(<<"Q">>, "shlex", "anywhere", "anyone", None,
                        <<Param("what", FALSE, FALSE)>>, "Query"),
                Command(<<"s">>, "spaces", "shared", "anyone", None, <<>>, None),
                Command(<<"t">>, "spaces", "anywhere", "admin", "has_feature",
                        <<>>, None) >>]

(***************************************************************************)
(* BoundCommand, discovery and resolution                                  *)
(***************************************************************************)
\* BoundCommand(hook, cmd).  The class defines neither __eq__ nor __hash__,
\* so a set of BoundCommand objects tells them apart by identity; every
\* attribute access on a hook creates a new one (Command.__get__).  oid
\* names the discover() call that created the object.
BoundCommand(hook, cmd, oid) == [hook |-> hook, cmd |-> cmd, oid |-> oid]

\* BoundCommand.test
test(bound) ==
    IF bound.cmd.test # None THEN TestPredicate(bound.cmd.test, bound.hook)
    ELSE TRUE

\* BoundCommand.applicable
ApplicableIgnoringScope(bound, private, admin) ==
    IF bound.cmd.role = "admin" /\ ~admin THEN FALSE
    ELSE test(bound)

applicable(bound, private, admin) ==
    IF bound.cmd.scope = "private" /\ ~private THEN FALSE
    ELSE IF bound.cmd.scope = "shared" /\ private THEN FALSE
    ELSE IF bound.cmd.role = "admin" /\ ~admin THEN FALSE
    ELSE test(bound)

\* CommandHook._hook: [ok |-> FALSE] is KeyError.
hook_lookup(name) ==
    IF name \in HostHooks THEN [ok |-> TRUE, hook |-> name]
    ELSE IF \E r \in HostResources : r = name THEN [ok |-> TRUE, hook |-> name]
    ELSE [ok |-> FALSE, hook |-> None]

\* CommandHook.discover: the values of the name -> BoundCommand table of a
\* hook; a later attribute of the same name replaces an earlier one.
DiscoverAnyState(hook, states, oid) ==
    LET attrs == HookCommands[hook]
        kept == {i \in 1..Len(attrs) :
                    \A j \in (i+1)..Len(attrs) : attrs[j].name # attrs[i].name}
    IN  {BoundCommand(hook, attrs[i], oid) : i \in kept}

discover(hook, states, oid) ==
    IF states[hook] # "active" THEN {}
    ELSE LET attrs == HookCommands[hook]
             kept == {i \in 1..Len(attrs) :
                         \A j \in (i+1)..Len(attrs) : attrs[j].name # attrs[i].name}
         IN  {BoundCommand(hook, attrs[i], oid) : i \in kept}

\* any(channel == self.host.channels[label] for label in labels):
\* "yes", "no", or "KeyError" at the first label not in host.channels.
RECURSIVE AnyChannel(_, _)
AnyChannel(labels, channel) ==
    IF labels = <<>> THEN "no"
    ELSE IF Head(labels) \notin DOMAIN HostChannels THEN "KeyError"
    ELSE IF HostChannels[Head(labels)] = channel THEN "yes"
    ELSE AnyChannel(Tail(labels), channel)

InSeq(x, seq) == \E i \in 1..Len(seq) : seq[i] = x

\* The group test of CommandHook.commands (the if / elif / elif chain).
GroupMatchPlugsOnly(group, channel) ==
    LET private == channel.private
        anywhere == group.plugs.anywhere
    IN  IF InSeq(channel.plug, anywhere \o group.plugs.private) /\ private THEN "yes"
        ELSE IF InSeq(channel.plug, anywhere \o group.plugs.shared) /\ ~private THEN "yes"
        ELSE "no"

GroupMatch(group, channel) ==
    LET private == channel.private
        anywhere == group.plugs.anywhere
    IN  IF InSeq(channel.plug, anywhere \o group.plugs.private) /\ private THEN "yes"
        ELSE IF InSeq(channel.plug, anywhere \o group.plugs.shared) /\ ~private THEN "yes"
        ELSE AnyChannel(group.channels, channel)

\* admin = user.plug and user.id in (group["admins"].get(user.plug.name) or [])
\* group.admins is the set of <<plug, user id>> pairs the mapping lists.
IsAdmin(group, user) == user.plug # None /\ <<user.plug, user.id>> \in group.admins

\* The commands one item (hook name, command names) of a set adds to
\* cmdgroup: discovered[cmd] for each name; KeyError when the hook is unknown
\* or a name is not in the table discover() returned.
SetItem(item, states, oid) ==
    LET h == hook_lookup(item[1])
        discovered == IF h.ok THEN discover(h.hook, states, oid) ELSE {}
        names == {item[2][k] : k \in 1..Len(item[2])}
    IN  IF ~h.ok \/ \E n \in names : \A b \in discovered : b.cmd.name # n
        THEN [ok |-> FALSE, cmds |-> {}]
        ELSE [ok |-> TRUE, cmds |-> {b \in discovered : b.cmd.name \in names}]

\* cmdgroup of a group once its hook names (found), its set labels (known)
\* and its set items (got) have been looked up.
CmdGroupOf(found, known, got, states, gi) ==
    IF (\E i \in DOMAIN found : ~found[i].ok) \/ (\E j \in DOMAIN known : ~known[j])
       \/ (\E j \in DOMAIN got : \E m \in DOMAIN got[j] : ~got[j][m].ok)
    THEN [ok |-> FALSE, cmds |-> {}]
    ELSE [ok |-> TRUE,
          cmds |-> UNION ({discover(found[i].hook, states, <<gi, "hooks", i, 0>>)
                              : i \in DOMAIN found}
                          \cup UNION {{got[j][m].cmds : m \in DOMAIN got[j]}
                                          : j \in DOMAIN got})]

\* for name in group["hooks"]: self._hook(name)
FoundHooks(group) == [i \in 1..Len(group.hooks) |-> hook_lookup(group.hooks[i])]

\* for label in group["sets"]: self.config["sets"][label]
KnownSets(cfg, group) == [j \in 1..Len(group.sets) |-> group.sets[j] \in DOMAIN cfg.sets]

\* for name, cmdset in self.config["sets"][label].items(): ...
SetItems(cfg, group, states, gi) ==
    [j \in {k \in 1..Len(group.sets) : group.sets[k] \in DOMAIN cfg.sets} |->
        [m \in 1..Len(cfg.sets[group.sets[j]]) |->
            SetItem(cfg.sets[group.sets[j]][m], states, <<gi, "sets", j, m>>)]]

\* cmdgroup of the gi-th group, before the applicable() filter;
\* [ok |-> FALSE] when a lookup raised KeyError.
CmdGroup(cfg, states, gi) ==
    CmdGroupOf(FoundHooks(cfg.groups[gi]), KnownSets(cfg, cfg.groups[gi]),
               SetItems(cfg, cfg.groups[gi], states, gi), states, gi)

\* The outcomes of commands(): the mapping (the set of its values, one per
\* name), KeyError or ConfigError.
Mapping(cmds) == [kind |-> "ok", cmds |-> cmds]
KeyError == [kind |-> "KeyError", cmds |-> {}]
ConfigError == [kind |-> "ConfigError", cmds |-> {}]

\* groups of CommandHook.commands: the indexes of the groups that matched
MatchingGroups(cfg, channel) ==
    {gi \in 1..Len(cfg.groups) : GroupMatch(cfg.groups[gi], channel) = "yes"}

Names(cmds) == {b.cmd.name : b \in cmds}

\* Collected with one admin flag for all groups: admin of any matching group.
CollectedAdminOfAnyGroup(cfg, states, private, user, groups) ==
    UNION {{b \in CmdGroup(cfg, states, gi).cmds :
               applicable(b, private,
                          \E gj \in groups : IsAdmin(cfg.groups[gj], user))}
              : gi \in groups}

\* cmds of CommandHook.commands: the applicable commands of the matching
\* groups, each group with its own admin flag.
Collected(cfg, states, private, user, groups) ==
    UNION {{b \in CmdGroup(cfg, states, gi).cmds :
               applicable(b, private, IsAdmin(cfg.groups[gi], user))} : gi \in groups}

\* The place of a BoundCommand in the iteration of the set cmds.  The objects
\* hash by identity, so the order is not fixed by the program: it is the
\* order of creation (rev = FALSE) or the opposite one (rev = TRUE).
Created(b) ==
    (((b.oid[1] * 2 + (IF b.oid[2] = "sets" THEN 1 ELSE 0)) * 8 + b.oid[3]) * 8
        + b.oid[4]) * 8
    + (CHOOSE i \in 1..Len(HookCommands[b.hook]) : HookCommands[b.hook][i] = b.cmd)

IteratedBefore(a, b, rev) ==
    IF rev THEN Created(a) > Created(b) ELSE Created(a) < Created(b)

\* The values of {cmd.name: cmd for cmd in cmds}: of the commands of one
\* name, the one iterated last stays.
DictValues(cmds, rev) ==
    {b \in cmds : \A c \in cmds :
        (c # b /\ c.cmd.name = b.cmd.name) => IteratedBefore(c, b, rev)}

\* MappedIn without the test on the length.
MappedLastWins(cmds, rev) == Mapping(DictValues(cmds, rev))

\* mapped = {cmd.name: cmd for cmd in cmds}, and the test on its length,
\* under an iteration order of cmds
MappedIn(cmds, rev) ==
    IF Cardinality(cmds) > Cardinality(DictValues(cmds, rev)) THEN ConfigError
    ELSE Mapping(DictValues(cmds, rev))

\* mapped = {cmd.name: cmd for cmd in cmds}, and the test on its length
MappedKeepingDuplicates(cmds) == Mapping(cmds)

Mapped(cmds) ==
    IF Cardinality(cmds) > Cardinality(Names(cmds)) THEN ConfigError
    ELSE Mapping(cmds)

\* CommandHook.commands once the matching groups are known
Resolved(cfg, states, channel, user, groups) ==
    IF \E gi \in groups : ~CmdGroup(cfg, states, gi).ok THEN KeyError
    ELSE Mapped(Collected(cfg, states, channel.private, user, groups))

\* CommandHook.commands
commands(cfg, states, channel, user) ==
    IF \E gi \in 1..Len(cfg.groups) : GroupMatch(cfg.groups[gi], channel) = "KeyError"
    THEN KeyError
    ELSE Resolved(cfg, states, channel, user, MatchingGroups(cfg, channel))

\* CommandHook.commands under an iteration order of the set cmds
commandsIn(cfg, states, channel, user, rev) ==
    IF commands(cfg, states, channel, user).kind = "KeyError" THEN KeyError
    ELSE MappedIn(Collected(cfg, states, channel.private, user,
                            MatchingGroups(cfg, channel)), rev)

(***************************************************************************)
(* Messages, help and dispatch                                             *)
(***************************************************************************)
\* immp.Segment and immp.Message as far as the dispatcher builds them; a
\* plain str text is one segment with rich = FALSE.
Segment(text, bold, italic) == [text |-> text, bold |-> bold, italic |-> italic]

Message(channel, rich, segs) == [channel |-> channel, rich |-> rich, segs |-> segs]

\* Python's order on strings, over the characters of command names
CharOrder == <<" ", "!", "'", "Q", "a", "h", "p", "q", "s", "t">>
Ord(c) == CHOOSE i \in 1..Len(CharOrder) : CharOrder[i] = c

RECURSIVE StrLess(_, _)
StrLess(a, b) ==
    IF b = <<>> THEN FALSE
    ELSE IF a = <<>> THEN TRUE
    ELSE IF Head(a) # Head(b) THEN Ord(Head(a)) < Ord(Head(b))
    ELSE StrLess(Tail(a), Tail(b))

\* sorted(cmds.items()): the commands of a mapping by ascending name
RECURSIVE SortedByName(_)
SortedByName(cmds) ==
    IF cmds = {} THEN <<>>
    ELSE LET first == CHOOSE b \in cmds :
                          \A c \in cmds : c = b \/ StrLess(b.cmd.name, c.cmd.name)
         IN  <<first>> \o SortedByName(cmds \ {first})

\* The text help builds for one command: name, argument summary, description.
HelpText(cmd) ==
    <<Segment(cmd.name, TRUE, FALSE)>>
    \o (IF spec(cmd) # <<>> THEN <<Segment(<<" ">> \o spec(cmd), FALSE, FALSE)>>
        ELSE <<>>)
    \o (IF cmd.doc # None
        THEN <<Segment(<<":">>, TRUE, FALSE), Segment(<<"\n", cmd.doc>>, FALSE, FALSE)>>
        ELSE <<>>)

RECURSIVE ListingLines(_)
ListingLines(sorted) ==
    IF sorted = <<>> THEN <<>>
    ELSE LET cmd == Head(sorted).cmd
         IN  <<Segment(<<"\n- ">> \o cmd.name, FALSE, FALSE)>>
             \o (IF spec(cmd) # <<>>
                 THEN <<Segment(<<" ">> \o spec(cmd), FALSE, TRUE)>> ELSE <<>>)
             \o ListingLines(Tail(sorted))

NoSuchCommand == <<Segment(<<"CROSS MARK", " No such command">>, FALSE, FALSE)>>

\* What a call leaves behind: the exception it raised (None when it
\* returned), the messages it sent, the command bodies it invoked and the
\* exceptions it logged.
Outcome(raised, sent, bodies, logs) ==
    [raised |-> raised, outbox |-> sent, ran |-> bodies, logged |-> logs]

\* CommandHook.help(msg, command) once cmds = commands(msg.channel, msg.user)
\* is known; command is [some |-> FALSE] when omitted.
HelpOfAnyCommand(cmds, msg, command) ==
    IF cmds.kind # "ok" THEN Outcome(cmds.kind, <<>>, <<>>, <<>>)
    ELSE IF cmds.cmds = {}
    THEN Outcome(None, <<Message(msg.channel, FALSE, NoSuchCommand)>>, <<>>, <<>>)
    ELSE Outcome(None,
             <<Message(msg.channel, TRUE, HelpText(SortedByName(cmds.cmds)[1].cmd))>>,
             <<>>, <<>>)

HelpFrom(cmds, msg, command) ==
    IF cmds.kind # "ok" THEN Outcome(cmds.kind, <<>>, <<>>, <<>>)
    ELSE IF command.some /\ command.text # <<>> THEN
        IF \E b \in cmds.cmds : b.cmd.name = command.text
        THEN Outcome(None,
                 <<Message(msg.channel, TRUE,
                           HelpText((CHOOSE b \in cmds.cmds :
                                        b.cmd.name = command.text).cmd))>>,
                 <<>>, <<>>)
        ELSE Outcome(None, <<Message(msg.channel, FALSE, NoSuchCommand)>>, <<>>, <<>>)
    ELSE Outcome(None,
             <<Message(msg.channel, TRUE,
                       <<Segment(<<"Available commands:">>, TRUE, FALSE)>>
                       \o ListingLines(SortedByName(cmds.cmds)))>>,
             <<>>, <<>>)

\* CommandHook.help
help(cfg, states, msg, command) ==
    HelpFrom(commands(cfg, states, msg.channel, msg.user), msg, command)

\* An optional string: None, or the string.
Absent == [some |-> FALSE, text |-> <<>>]
Present(text) == [some |-> TRUE, text |-> text]

\* FirstPrefix that takes the last of the prefixes that match.
LastPrefix(prefixes, lowered, i) ==
    IF \A k \in i..Len(prefixes) : ~StartsWith(lowered, prefixes[k]) THEN 0
    ELSE CHOOSE k \in i..Len(prefixes) :
             /\ StartsWith(lowered, prefixes[k])
             /\ \A m \in i..Len(prefixes) : StartsWith(lowered, prefixes[m]) => m <= k

\* The first configured prefix the lower-cased text starts with: its index,
\* 0 when there is none (the for / else of on_receive).
RECURSIVE FirstPrefix(_, _, _)
FirstPrefix(prefixes, lowered, i) ==
    IF i > Len(prefixes) THEN 0
    ELSE IF StartsWith(lowered, prefixes[i]) THEN i
    ELSE FirstPrefix(prefixes, lowered, i + 1)

\* What the body of a command does when invoked with msg and args: the help
\* command of the command hook runs help(); the body of any other command is
\* not part of the dispatcher, and behaves as `does` says: it returns, raises
\* BadUsage, or raises another exception.
Body(cfg, states, bound, msg, args, does) ==
    IF bound.hook = "cmd"
    THEN help(cfg, states, msg, IF args = <<>> THEN Absent ELSE Present(args[1]))
    ELSE Outcome(IF does.kind = "return" THEN None ELSE does.cls, <<>>, <<>>, <<>>)

Returns == [kind |-> "return", cls |-> None, msg |-> ""]
RaisesBadUsage == [kind |-> "raise", cls |-> "BadUsage", msg |-> "bad"]
BodyBehaviours ==
    {Returns, RaisesBadUsage,
     [kind |-> "raise", cls |-> "RuntimeError", msg |-> "boom"],
     [kind |-> "raise", cls |-> "KeyError", msg |-> ""]}

\* "{WARNING SIGN} {text}", text = ": ".join(filter(None, (class name, str(e))))
ErrorSummary(cls, msg) ==
    <<Segment(<<"WARNING SIGN", " ", cls>>
              \o (IF msg # "" THEN <<": ", msg>> ELSE <<>>), FALSE, FALSE)>>

\* str(e) of an exception raised through the body
ErrorText(bound, does) == IF bound.hook = "cmd" THEN "detail" ELSE does.msg

Invocation(bound, args) == [hook |-> bound.hook, name |-> bound.cmd.name, args |-> args]

\* Handled without the handler of the other exceptions: they propagate.
HandledOnlyBadUsage(cfg, states, sent, bound, args, does, body) ==
    IF body.raised = None
    THEN Outcome(None, body.outbox, <<Invocation(bound, args)>>, <<>>)
    ELSE IF body.raised = "BadUsage"
    THEN Outcome(help(cfg, states, sent, Present(bound.cmd.name)).raised,
                 body.outbox
                 \o help(cfg, states, sent, Present(bound.cmd.name)).outbox,
                 <<Invocation(bound, args)>>, <<>>)
    ELSE Outcome(body.raised, body.outbox, <<Invocation(bound, args)>>, <<>>)

\* Handled that summarises the exception whatever return-errors says.
HandledAlwaysReports(cfg, states, sent, bound, args, does, body) ==
    IF body.raised = None
    THEN Outcome(None, body.outbox, <<Invocation(bound, args)>>, <<>>)
    ELSE IF body.raised = "BadUsage"
    THEN Outcome(help(cfg, states, sent, Present(bound.cmd.name)).raised,
                 body.outbox
                 \o help(cfg, states, sent, Present(bound.cmd.name)).outbox,
                 <<Invocation(bound, args)>>, <<>>)
    ELSE Outcome(None,
             body.outbox
             \o <<Message(sent.channel, FALSE,
                          ErrorSummary(body.raised, ErrorText(bound, does)))>>,
             <<Invocation(bound, args)>>, <<body.raised>>)

\* The try block of on_receive that invokes the command, once the body has
\* run: BadUsage is answered with the help of the command, any other
\* exception is logged and, with return-errors, summarised to the channel.
Handled(cfg, states, sent, bound, args, does, body) ==
    IF body.raised = None
    THEN Outcome(None, body.outbox, <<Invocation(bound, args)>>, <<>>)
    ELSE IF body.raised = "BadUsage"
    THEN Outcome(help(cfg, states, sent, Present(bound.cmd.name)).raised,
                 body.outbox
                 \o help(cfg, states, sent, Present(bound.cmd.name)).outbox,
                 <<Invocation(bound, args)>>, <<>>)
    ELSE Outcome(None,
             body.outbox
             \o (IF cfg.returnErrors
                 THEN <<Message(sent.channel, FALSE,
                                ErrorSummary(body.raised, ErrorText(bound, does)))>>
                 ELSE <<>>),
             <<Invocation(bound, args)>>, <<body.raised>>)

\* Execute that starts the body and does not await it.
ExecuteDetached(cfg, states, sent, bound, args, does) ==
    Outcome(None, <<>>, <<>>, <<>>)

Execute(cfg, states, sent, bound, args, does) ==
    Handled(cfg, states, sent, bound, args, does,
            Body(cfg, states, bound, sent, args, does))

Nothing == Outcome(None, <<>>, <<>>, <<>>)

NoUser == Usr(None, None)

\* Invoke without the arity check: only a parse failure is answered with help.
InvokeUnvalidated(cfg, states, sent, name, bound, parsed, does) ==
    IF ~parsed.ok
    THEN help(cfg, states, sent, Present(name))
    ELSE Execute(cfg, states, sent, bound, parsed.args, does)

\* on_receive once the command is found: parse and valid, then the body.
Invoke(cfg, states, sent, name, bound, parsed, does) ==
    IF ~parsed.ok \/ ~valid(bound.cmd, parsed.args)
    THEN help(cfg, states, sent, Present(name))
    ELSE Execute(cfg, states, sent, bound, parsed.args, does)

\* Lookup that answers a name that is not in the mapping.
LookupAnswersMiss(cfg, states, sent, name, trailing, cmds, does) ==
    IF cmds.kind # "ok" THEN Outcome(cmds.kind, <<>>, <<>>, <<>>)
    ELSE IF \A b \in cmds.cmds : b.cmd.name # name
    THEN Outcome(None, <<Message(sent.channel, FALSE, NoSuchCommand)>>, <<>>, <<>>)
    ELSE Invoke(cfg, states, sent, name,
                CHOOSE b \in cmds.cmds : b.cmd.name = name,
                parse((CHOOSE b \in cmds.cmds : b.cmd.name = name).cmd, trailing),
                does)

\* on_receive from cmds = await self.commands(sent.channel, sent.user)
Lookup(cfg, states, sent, name, trailing, cmds, does) ==
    IF cmds.kind # "ok" THEN Outcome(cmds.kind, <<>>, <<>>, <<>>)
    ELSE IF \A b \in cmds.cmds : b.cmd.name # name THEN Nothing
    ELSE Invoke(cfg, states, sent, name,
                CHOOSE b \in cmds.cmds : b.cmd.name = name,
                parse((CHOOSE b \in cmds.cmds : b.cmd.name = name).cmd, trailing),
                does)

\* on_receive from raw = plain[len(prefix):].split(maxsplit=1)
Matched(cfg, states, sent, raw, does) ==
    IF raw = <<>> THEN Outcome("IndexError", <<>>, <<>>, <<>>)
    ELSE Lookup(cfg, states, sent, Lower(raw[1]),
                IF Len(raw) = 2 THEN Present(raw[2]) ELSE Absent,
                commands(cfg, states, sent.channel, sent.user), does)

\* Prefixed that takes a text no prefix matched as a command all the same.
PrefixedOrBare(cfg, states, sent, pi, does) ==
    IF pi = 0 THEN Matched(cfg, states, sent, SplitMax1(sent.text.text), does)
    ELSE Matched(cfg, states, sent,
                 SplitMax1(Drop(sent.text.text, Len(cfg.prefix[pi]))), does)

\* on_receive from the loop over the prefixes; pi is the index of the first
\* prefix that matched, 0 when none did
Prefixed(cfg, states, sent, pi, does) ==
    IF pi = 0 THEN Nothing
    ELSE Matched(cfg, states, sent,
                 SplitMax1(Drop(sent.text.text, Len(cfg.prefix[pi]))), does)

\* CommandHook.on_receive(sent, source, primary)
OnReceiveAlways(cfg, states, sent, primary, does) ==
    IF ~sent.text.some THEN Nothing
    ELSE Prefixed(cfg, states, sent,
                  FirstPrefix(cfg.prefix, Lower(sent.text.text), 1), does)

on_receive(cfg, states, sent, primary, does) ==
    IF ~primary \/ sent.user = NoUser \/ ~sent.text.some \/ sent.text.text = <<>>
    THEN Nothing
    ELSE Prefixed(cfg, states, sent,
                  FirstPrefix(cfg.prefix, Lower(sent.text.text), 1), does)

(***************************************************************************)
(* Rich text: imirror.Segment and RichText, the Slack and Telegram         *)
(* dialects                                                                *)
(***************************************************************************)
\* A segment: its text and the formatting attributes that are true (bold,
\* italic, strike, code, pre); the segments here carry no link.
RichSegment(text, attrs) == [text |-> text, attrs |-> attrs]

\* RichText.normalise: no segment with empty text, and adjacent segments of
\* the same attributes merged.
RECURSIVE NormaliseInto(_, _)
NormaliseInto(acc, segs) ==
    IF segs = <<>> THEN acc
    ELSE IF Head(segs).text = <<>> THEN NormaliseInto(acc, Tail(segs))
    ELSE IF acc # <<>> /\ acc[Len(acc)].attrs = Head(segs).attrs
    THEN NormaliseInto([acc EXCEPT ![Len(acc)].text = @ \o Head(segs).text],
                       Tail(segs))
    ELSE NormaliseInto(Append(acc, Head(segs)), Tail(segs))

normalise(segs) == NormaliseInto(<<>>, segs)

\* The character ` (a string of the module cannot hold it)
Backtick == "backtick"

\* SlackRichText.tags, in the order of the dict
SlackTags ==
    << <<"*">>, <<"_">>, <<"~">>, <<Backtick>>, <<Backtick, Backtick, Backtick>> >>

TagAttr(tag) ==
    CASE tag = <<"*">> -> "bold"
      [] tag = <<"_">> -> "italic"
      [] tag = <<"~">> -> "strike"
      [] tag = <<Backtick>> -> "code"
      [] OTHER -> "pre"

\* The state of to_mrkdwn: the text so far and the list `active`; marks
\* records each tag written, as <<"open", tag>> or <<"close", tag>>.
Encoding(text, active, marks) == [text |-> text, active |-> active, marks |-> marks]

\* for tag in reversed(active): if not getattr(segment, attr): text += tag;
\* active.remove(tag).  i is the index reversed() stands at.
RECURSIVE CloseEnded(_, _, _)
CloseEnded(enc, segment, i) ==
    IF i = 0 THEN enc
    ELSE IF TagAttr(enc.active[i]) \notin segment.attrs
    THEN CloseEnded(Encoding(enc.text \o enc.active[i],
                             SubSeq(enc.active, 1, i - 1)
                                 \o SubSeq(enc.active, i + 1, Len(enc.active)),
                             Append(enc.marks, <<"close", enc.active[i]>>)),
                    segment, i - 1)
    ELSE CloseEnded(enc, segment, i - 1)

\* for tag, attr in cls.tags.items(): if getattr(segment, attr) and tag not
\* in active: text += tag; active.append(tag)
RECURSIVE OpenNew(_, _, _)
OpenNew(enc, segment, k) ==
    IF k > Len(SlackTags) THEN enc
    ELSE IF TagAttr(SlackTags[k]) \in segment.attrs /\ ~InSeq(SlackTags[k], enc.active)
    THEN OpenNew(Encoding(enc.text \o SlackTags[k], Append(enc.active, SlackTags[k]),
                          Append(enc.marks, <<"open", SlackTags[k]>>)),
                 segment, k + 1)
    ELSE OpenNew(enc, segment, k + 1)

\* The body of the loop of to_mrkdwn over the segments, ending with
\* text += segment.text
RECURSIVE EncodeAll(_, _)
EncodeAll(enc, segs) ==
    IF segs = <<>> THEN enc
    ELSE LET opened == OpenNew(CloseEnded(enc, Head(segs), Len(enc.active)),
                               Head(segs), 1)
         IN  EncodeAll(Encoding(opened.text \o Head(segs).text, opened.active,
                                opened.marks),
                       Tail(segs))

\* for tag in reversed(active): text += tag
RECURSIVE CloseRemaining(_, _)
CloseRemaining(enc, i) ==
    IF i = 0 THEN enc
    ELSE CloseRemaining(Encoding(enc.text \o enc.active[i], enc.active,
                                 Append(enc.marks, <<"close", enc.active[i]>>)),
                        i - 1)

\* SlackRichText.to_mrkdwn: the text it returns, with the marks
to_mrkdwn(rich) ==
    LET enc == EncodeAll(Encoding(<<>>, <<>>, <<>>), normalise(rich))
    IN  CloseRemaining(enc, Len(enc.active))

\* _outside_chars = "0-9a-z*_~" (the expression is compiled without
\* re.IGNORECASE)
OutsideChar(c) ==
    c \in {"0", "1", "2", "3", "4", "5", "6", "7", "8", "9",
           "a", "b", "c", "d", "e", "f", "g", "h", "i", "j", "k", "l", "m",
           "n", "o", "p", "q", "r", "s", "t", "u", "v", "w", "x", "y", "z",
           "*", "_", "~"}

\* text[i:] starts with tag (i counts from 1)
HasAt(text, i, tag) ==
    /\ i + Len(tag) - 1 <= Len(text)
    /\ SubSeq(text, i, i + Len(tag) - 1) = tag

\* (?<![0-9a-z*_~\\])(```|[*_~`])(?![\s\1]) at i.  Inside the brackets \1 is
\* the character of code 1, not the tag: the look-ahead excludes whitespace.
OpensAt(text, i, tag) ==
    /\ HasAt(text, i, tag)
    /\ (i > 1) => ~(OutsideChar(text[i - 1]) \/ text[i - 1] = "\\")
    /\ (i + Len(tag) <= Len(text)) => ~IsSpace(text[i + Len(tag)])

\* ClosesAt without the escape character in its look-behind
ClosesAtEscaped(text, j, tag) ==
    /\ HasAt(text, j, tag)
    /\ ~IsSpace(text[j - 1])
    /\ (j + Len(tag) <= Len(text)) => ~OutsideChar(text[j + Len(tag)])

\* (?<![\s\1\\])\1(?![0-9a-z*_~]) at j
ClosesAt(text, j, tag) ==
    /\ HasAt(text, j, tag)
    /\ ~(IsSpace(text[j - 1]) \/ text[j - 1] = "\\")
    /\ (j + Len(tag) <= Len(text)) => ~OutsideChar(text[j + Len(tag)])

\* The places where the tag opened at i can close: (.+?) takes one
\* character at least, and the nearest place is taken.
Closings(text, i, tag) ==
    {j \in (i + Len(tag) + 1)..Len(text) : ClosesAt(text, j, tag)}

\* The alternatives of (```|[*_~`]) at i, in the order they are tried
\* (_tag_chars = "*_~`")
TagsAt(text, i) ==
    IF HasAt(text, i, <<Backtick, Backtick, Backtick>>)
    THEN << <<Backtick, Backtick, Backtick>>, <<Backtick>> >>
    ELSE IF text[i] \in {"*", "_", "~", Backtick} THEN << <<text[i]>> >>
    ELSE <<>>

\* The alternatives with which the expression matches at i
Matching(text, i) ==
    {k \in 1..Len(TagsAt(text, i)) :
        /\ OpensAt(text, i, TagsAt(text, i)[k])
        /\ Closings(text, i, TagsAt(text, i)[k]) # {}}

\* The places where _format_regex matches
Starts(text) == {i \in 1..Len(text) : Matching(text, i) # {}}

Least(S) == CHOOSE x \in S : \A y \in S : x <= y

\* The match object: start() and end() count from 0, group(1) is the tag
\* and group(2) the text between the tags.
\* _format_regex.search(text), when there is a match: the leftmost place,
\* its first alternative that matches, the nearest closing tag.
Search(text) ==
    LET i == Least(Starts(text))
        tag == TagsAt(text, i)[Least(Matching(text, i))]
        j == Least(Closings(text, i, tag))
    IN  [start |-> i - 1, tag |-> tag,
         group |-> SubSeq(text, i + Len(tag), j - 1),
         end |-> j + Len(tag) - 1]

\* changes = defaultdict(dict): points are its keys in the order they were
\* first written, on[offset] the attributes whose value at offset is True.
NoChanges(n) == [points |-> <<>>, on |-> [o \in 0..n |-> {}]]

\* changes[offset][attr] = value
Change(changes, offset, attr, value) ==
    [points |-> IF InSeq(offset, changes.points) THEN changes.points
                ELSE Append(changes.points, offset),
     on |-> [changes.on EXCEPT ![offset] = IF value THEN @ \cup {attr}
                                           ELSE @ \ {attr}]]

\* The while loop of from_mrkdwn: the tags of each match are stripped from
\* the text and the range of the format recorded.
RECURSIVE Formatted(_, _)
Formatted(text, changes) ==
    IF Starts(text) = {} THEN [text |-> text, changes |-> changes]
    ELSE LET match == Search(text)
         IN  Formatted(SubSeq(text, 1, match.start) \o match.group
                           \o SubSeq(text, match.end + 1, Len(text)),
                       Change(Change(changes, match.start, TagAttr(match.tag), TRUE),
                              match.end - 2 * Len(match.tag), TagAttr(match.tag),
                              FALSE))

\* zip([0] + points, points + [len(text)]) without the pairs start == end
RECURSIVE SpansFrom(_, _, _)
SpansFrom(points, n, k) ==
    IF k > Len(points) + 1 THEN <<>>
    ELSE IF (IF k = 1 THEN 0 ELSE points[k - 1])
            = (IF k <= Len(points) THEN points[k] ELSE n)
    THEN SpansFrom(points, n, k + 1)
    ELSE << <<IF k = 1 THEN 0 ELSE points[k - 1],
              IF k <= Len(points) THEN points[k] ELSE n>> >>
         \o SpansFrom(points, n, k + 1)

Spans(text, changes) == SpansFrom(changes.points, Len(text), 1)

\* segments.append(Segment(text[start:end], **changes[start])); the slice
\* text[start:end] is empty when start >= end and stops at the end of text.
Segmented(text, changes) ==
    LET spans == Spans(text, changes)
    IN  [i \in 1..Len(spans) |->
            RichSegment(IF spans[i][1] < spans[i][2]
                        THEN SubSeq(text, spans[i][1] + 1,
                                    IF spans[i][2] < Len(text) THEN spans[i][2]
                                    ELSE Len(text))
                        ELSE <<>>,
                        changes.on[spans[i][1]])]

\* SlackRichText.from_mrkdwn, for a text without links, mentions and emoji
from_mrkdwn(text) ==
    LET formatted == Formatted(text, NoChanges(Len(text)))
    IN  Segmented(formatted.text, formatted.changes)

\* A Telegram MessageEntity
Entity(type, offset, length) == [type |-> type, offset |-> offset, length |-> length]

FormatTypes == {"bold", "italic", "code", "pre"}

\* The loop of from_entities over the entities
RECURSIVE EntityChanges(_, _)
EntityChanges(changes, entities) ==
    IF entities = <<>> THEN changes
    ELSE IF Head(entities).type \notin FormatTypes
    THEN EntityChanges(changes, Tail(entities))
    ELSE EntityChanges(
             Change(Change(changes, Head(entities).offset, Head(entities).type, TRUE),
                    Head(entities).offset + Head(entities).length,
                    Head(entities).type, FALSE),
             Tail(entities))

\* TelegramRichText.from_entities
from_entities(text, entities) ==
    Segmented(text, EntityChanges(NoChanges(Len(text)), entities))

\* The rich texts given to to_mrkdwn
RichTexts ==
    UNION {[1..n -> {RichSegment(t, as) : t \in {<<"a">>, <<" ">>},
                                          as \in SUBSET {"bold", "italic", "strike"}}]
              : n \in 0..MaxSegments}

\* The texts given to from_mrkdwn
Mrkdwns == UNION {[1..n -> {"a", "A", " ", "*", "_", "\\"}] : n \in 0..MaxMrkdwnLen}

\* The texts and entities given to from_entities: every list of entities
\* that lie within a short text, and the halves and the whole of a text of
\* ten characters.
ShortText == <<"a", "b", "c", "d">>
LongText == <<"a", "b", "c", "d", "e", "f", "g", "h", "i", "j">>

EntitiesWithin(text) ==
    {Entity(t, o, l) : t \in {"bold", "italic", "mention"},
                       o \in 0..(Len(text) - 1), l \in 1..Len(text)}

ListsOf(S, n) == UNION {[1..m -> S] : m \in 0..n}

Annotated ==
    {[text |-> ShortText, entities |-> es]
        : es \in ListsOf({e \in EntitiesWithin(ShortText) :
                             e.offset + e.length <= Len(ShortText)}, MaxEntities)}
    \cup {[text |-> LongText, entities |-> es]
             : es \in ListsOf({Entity("bold", 0, 5), Entity("italic", 5, 5),
                               Entity("bold", 0, 10)}, MaxEntities)}

(***************************************************************************)
(* Configurations                                                          *)
(***************************************************************************)
Group(anywhere, private, shared, channels, hooks, sets, admins) ==
    [plugs |-> [anywhere |-> anywhere, private |-> private, shared |-> shared],
     channels |-> channels, hooks |-> hooks, sets |-> sets, admins |-> admins]

\* config["sets"]: label -> the items (hook name, command names) of the set
Sets ==
    [s1 |-> << <<"A", << <<"a">> >> >>, <<"B", << <<"q">>, <<"s">> >> >> >>,
     s2 |-> << <<"B", << <<"q">> >> >> >>,
     s3 |-> << <<"A", << <<"a">>, <<"z">> >> >> >>]

Config(prefix, returnErrors, groups) ==
    [prefix |-> prefix, returnErrors |-> returnErrors, sets |-> Sets,
     groups |-> groups]

\* Where a group applies: its plug lists and its channel list.
Places ==
    { <<(<<"p1">>), <<>>, <<>>, <<>>>>,
      << <<>>, <<"p1">>, <<"p2">>, <<>>>>,
      << <<>>, <<"p2">>, <<"p1">>, <<"room2">>>>,
      << <<>>, <<>>, <<>>, <<"room2", "direct2">>>> }

\* What a group enables: its hooks and its sets.
Contents ==
    { << <<"cmd">>, <<"s2">> >>,
      << <<"A">>, <<>> >>,
      << <<"B">>, <<"s2">> >>,
      << <<>>, <<"s1">> >> }

AdminsOfP1 == {<<"p1", "u1">>}

GroupPool ==
    {Group(pl[1], pl[2], pl[3], pl[4], co[1], co[2], AdminsOfP1)
        : pl \in Places, co \in Contents}

\* Groups without admins that overlap the groups of the pool.
Overlays ==
    { Group(<<"p1", "p2">>, <<>>, <<>>, <<>>, <<"A">>, <<>>, {}),
      Group(<<>>, <<"p1">>, <<"p1">>, <<"room2">>, <<"cmd", "B">>, <<>>, {}),
      Group(<<>>, <<>>, <<>>, <<"direct2", "room2">>, <<>>, <<"s2">>, {<<"p2", "u1">>}) }

\* Groups with a reference to something that does not exist: a hook the
\* host does not have, a set label that is not in config["sets"], a channel
\* label that is not in host.channels, a set (s3) that names a command "z"
\* its hook does not declare.
Malformed ==
    { Group(<<"p1", "p2">>, <<>>, <<>>, <<>>, <<"A", "X">>, <<>>, {}),
      Group(<<"p1", "p2">>, <<>>, <<>>, <<>>, <<"A">>, <<"s9">>, {}),
      Group(<<"p1">>, <<>>, <<>>, <<"room2", "nowhere">>, <<"A">>, <<>>, {}),
      Group(<<"p1", "p2">>, <<>>, <<>>, <<>>, <<>>, <<"s3">>, {}) }

Prefixes == << <<"!">> >>

ResolveConfigs ==
    {Config(Prefixes, FALSE, <<g>>) : g \in GroupPool}
    \cup {Config(Prefixes, FALSE, <<g, o>>) : g \in GroupPool, o \in Overlays}
    \cup {Config(Prefixes, FALSE, <<m>>) : m \in Malformed}

\* config["prefix"] and config["return-errors"] of the dispatcher: a single
\* prefix, an upper-case prefix, a letter prefix before another prefix, and
\* a prefix that is the start of a later one.
\* _key("return-errors", False): the value of a configuration without the key
DefaultReturnErrors == FALSE

DispatchSettings ==
    { << << <<"!">> >>, DefaultReturnErrors >>,
      << << <<"!">> >>, TRUE >>,
      << << <<"Q">> >>, DefaultReturnErrors >>,
      << << <<"q">>, <<"!">> >>, TRUE >>,
      << << <<"!">>, <<"!", "h">> >>, DefaultReturnErrors >> }

DispatchConfigs ==
    {Config(ps[1], ps[2],
            <<Group(<<"p1">>, <<>>, <<>>, <<>>, <<"cmd", "B">>, <<>>, {})>>)
        : ps \in DispatchSettings}

DispatchChannels == {Direct1, Room1}

\* Parameter lists Python accepts for a command function: parameters
\* without default, then parameters with default, then at most one *args.
Signature(nreq, nopt, nvar) ==
    [i \in 1..(nreq + nopt + nvar) |->
        IF i <= nreq THEN Param("r", FALSE, FALSE)
        ELSE IF i <= nreq + nopt THEN Param("o", TRUE, FALSE)
        ELSE Param("v", FALSE, TRUE)]

Signatures ==
    {Signature(a, b, c) : a \in 0..MaxParams, b \in 0..MaxParams, c \in 0..1}
    \cap UNION {[1..n -> {Param("r", FALSE, FALSE), Param("o", TRUE, FALSE),
                          Param("v", FALSE, TRUE)}] : n \in 0..MaxParams}

(***************************************************************************)
(* State machine                                                           *)
(***************************************************************************)
NoCall == [op |-> "none"]

Idle ==
    /\ pc = "idle"
    /\ call = NoCall
    /\ result = Nothing
    /\ outbox = <<>>
    /\ ran = <<>>
    /\ logged = <<>>
    /\ net = [kind |-> "none"]

\* Openable: inactive -> starting -> active | failed;
\* active, starting, failed -> stopping -> inactive.
Connect(h) ==
    /\ pc = "idle" /\ hookState[h] \in {"inactive", "failed"}
    /\ hookState' = [hookState EXCEPT ![h] = "starting"]
    /\ UNCHANGED <<config, pc, call, result, outbox, ran, logged, net>>

Connected(h) ==
    /\ pc = "idle" /\ hookState[h] = "starting"
    /\ hookState' = [hookState EXCEPT ![h] = "active"]
    /\ UNCHANGED <<config, pc, call, result, outbox, ran, logged, net>>

ConnectFailed(h) ==
    /\ pc = "idle" /\ hookState[h] = "starting"
    /\ hookState' = [hookState EXCEPT ![h] = "failed"]
    /\ UNCHANGED <<config, pc, call, result, outbox, ran, logged, net>>

Disconnect(h) ==
    /\ pc = "idle" /\ hookState[h] \in {"active", "starting", "failed"}
    /\ hookState' = [hookState EXCEPT ![h] = "stopping"]
    /\ UNCHANGED <<config, pc, call, result, outbox, ran, logged, net>>

Disconnected(h) ==
    /\ pc = "idle" /\ hookState[h] = "stopping"
    /\ hookState' = [hookState EXCEPT ![h] = "inactive"]
    /\ UNCHANGED <<config, pc, call, result, outbox, ran, logged, net>>

\* The caller takes the result of the completed call.
Return ==
    /\ pc = "returned"
    /\ pc' = "idle"
    /\ call' = NoCall
    /\ result' = Nothing
    /\ outbox' = <<>>
    /\ ran' = <<>>
    /\ logged' = <<>>
    /\ UNCHANGED <<hookState, config, net>>

\* A call of commands(channel, user)
Resolve(channel, user) ==
    /\ pc = "idle"
    /\ pc' = "returned"
    /\ \E rev \in BOOLEAN :
           /\ call' = [op |-> "commands", channel |-> channel, user |-> user,
                       rev |-> rev]
           /\ result' = commandsIn(config, hookState, channel, user, rev)
    /\ UNCHANGED <<hookState, config, outbox, ran, logged, net>>

\* The host delivers a message to the command hook: on_receive runs to its
\* end and leaves out behind.  `does` is what the body of the invoked
\* command does; it is Returns when no such body is invoked.
Delivered(sent, primary, does, out) ==
    /\ does # Returns => (out.ran # <<>> /\ out.ran[1].hook # "cmd")
    /\ pc' = "returned"
    /\ call' = [op |-> "on_receive", sent |-> sent, primary |-> primary,
                does |-> does]
    /\ result' = Outcome(out.raised, <<>>, <<>>, <<>>)
    /\ outbox' = out.outbox
    /\ ran' = out.ran
    /\ logged' = out.logged
    /\ UNCHANGED <<hookState, config, net>>

Deliver(sent, primary, does) ==
    Delivered(sent, primary, does, on_receive(config, hookState, sent, primary, does))

\* A call of Command.valid with nargs arguments on a command with params
Validate(params, nargs) ==
    /\ pc = "idle"
    /\ pc' = "returned"
    /\ call' = [op |-> "valid", params |-> params, nargs |-> nargs]
    /\ result' = Outcome(IF ValidArity(params, nargs) THEN None ELSE "ValueError",
                         <<>>, <<>>, <<>>)
    /\ UNCHANGED <<hookState, config, outbox, ran, logged, net>>

Inbound ==
    [user : {NoUser, Usr("p1", "u1")},
     text : {Absent} \cup {Present(t) : t \in Texts},
     channel : DispatchChannels]

\* The dispatcher: one command hook with its configuration, hook B starting
\* and stopping, messages delivered one at a time.
Init ==
    /\ hookState = [h \in Hooks |-> "active"]
    /\ config \in DispatchConfigs
    /\ Idle

Next ==
    \/ Connect("B")
    \/ Connected("B")
    \/ ConnectFailed("B")
    \/ Disconnect("B")
    \/ Disconnected("B")
    \/ /\ pc = "idle" /\ hookState["cmd"] = "active"
       /\ \E sent \in Inbound, primary \in BOOLEAN, does \in BodyBehaviours :
              Deliver(sent, primary, does)
    \/ Return

Spec == Init /\ [][Next]_vars

\* Resolution: every hook starting and stopping, commands() called for any
\* channel and user under any of the configurations.
InitResolve ==
    /\ hookState = [h \in Hooks |-> "inactive"]
    /\ config \in ResolveConfigs
    /\ Idle

NextResolve ==
    \/ \E h \in Hooks : Connect(h)
    \/ \E h \in Hooks : Connected(h)
    \/ \E h \in Hooks : ConnectFailed(h)
    \/ \E h \in Hooks : Disconnect(h)
    \/ \E h \in Hooks : Disconnected(h)
    \/ \E channel \in Channels, user \in Users : Resolve(channel, user)
    \/ Return

SpecResolve == InitResolve /\ [][NextResolve]_vars

\* Arity validation: Command.valid called on any signature with any number
\* of arguments.
InitValid ==
    /\ hookState = [h \in Hooks |-> "inactive"]
    /\ config \in {Config(Prefixes, FALSE, <<>>)}
    /\ Idle

NextValid ==
    \/ \E params \in Signatures, nargs \in 0..MaxArgs : Validate(params, nargs)
    \/ Return

SpecValid == InitValid /\ [][NextValid]_vars

\* A call of SlackRichText.to_mrkdwn(rich)
Encode(rich) ==
    /\ pc' = "returned"
    /\ call' = [op |-> "to_mrkdwn", rich |-> rich]
    /\ result' = to_mrkdwn(rich)
    /\ UNCHANGED <<hookState, config, outbox, ran, logged, net>>

\* The text to_mrkdwn returned is given to from_mrkdwn
ParseBack ==
    /\ pc = "returned" /\ call.op = "to_mrkdwn"
    /\ pc' = "returned"
    /\ call' = [op |-> "round_trip", rich |-> call.rich, text |-> result.text]
    /\ result' = from_mrkdwn(result.text)
    /\ UNCHANGED <<hookState, config, outbox, ran, logged, net>>

\* A call of SlackRichText.from_mrkdwn(slack, text)
Decode(text) ==
    /\ pc' = "returned"
    /\ call' = [op |-> "from_mrkdwn", text |-> text]
    /\ result' = from_mrkdwn(text)
    /\ UNCHANGED <<hookState, config, outbox, ran, logged, net>>

\* A call of TelegramRichText.from_entities(text, entities)
Annotate(text, entities) ==
    /\ pc' = "returned"
    /\ call' = [op |-> "from_entities", text |-> text, entities |-> entities]
    /\ result' = from_entities(text, entities)
    /\ UNCHANGED <<hookState, config, outbox, ran, logged, net>>

\* The rich-text engine: texts encoded to and decoded from the Slack
\* dialect, and decoded from Telegram entities.
InitRich ==
    /\ hookState = [h \in Hooks |-> "inactive"]
    /\ config \in {Config(Prefixes, FALSE, <<>>)}
    /\ Idle

NextRich ==
    \/ /\ pc = "idle"
       /\ \E rich \in RichTexts : Encode(rich)
    \/ ParseBack
    \/ /\ pc = "idle"
       /\ \E text \in Mrkdwns : Decode(text)
    \/ /\ pc = "idle"
       /\ \E input \in Annotated : Annotate(input.text, input.entities)
    \/ Return

SpecRich == InitRich /\ [][NextRich]_vars

(***************************************************************************)
(* The Slack and Telegram transports: connect, disconnect, get and put.    *)
(* A session or socket is an index into net.opened (0 is None), where the  *)
(* number of times it was closed is counted.  The generator get() is       *)
(* suspended at net.get: "new" (not started), "receive" (receive_json),    *)
(* "close" (socket.close), "sleep", "rtm" (_rtm), "poll" (getUpdates),     *)
(* "yielded"; it has left at "ended" (return) and "raised".                *)
(***************************************************************************)
\* SlackTransport.__init__ and TelegramTransport.__init__
Fresh(kind) ==
    [kind |-> kind, state |-> "inactive", session |-> 0, socket |-> 0,
     closing |-> FALSE, opened |-> <<>>, users |-> {}, offset |-> 0,
     get |-> "new", on |-> 0, retry |-> 0, batch |-> <<>>,
     asked |-> 0, cut |-> "no", after |-> FALSE]

\* SlackTransport._rtm: rtm.start through self._session, the caches, then
\* self._socket = await self._session.ws_connect(url)
rtm(n, outcome) ==
    IF n.session = 0 THEN [net |-> n, raised |-> "AttributeError"]
    ELSE IF outcome = "api_error" THEN [net |-> n, raised |-> "SlackAPIError"]
    ELSE IF outcome = "socket_error"
    THEN [net |-> [n EXCEPT !.users = {"SlackUser"}], raised |-> "ClientError"]
    ELSE [net |-> [n EXCEPT !.users = {"SlackUser"},
                            !.opened = Append(@, [type |-> "socket", closes |-> 0]),
                            !.socket = Len(n.opened) + 1],
          raised |-> None]

\* SlackTransport.connect.  super().connect() is Openable's: it leaves the
\* state of a transport that is starting or active, and the state ends
\* active, or failed when the connection raised.
SlackConnect(outcome) ==
    /\ net.kind = "slack" /\ Len(net.opened) + 2 <= MaxOpened
    /\ LET made == rtm([net EXCEPT !.closing = FALSE,
                                   !.opened = Append(@, [type |-> "session",
                                                         closes |-> 0]),
                                   !.session = Len(net.opened) + 1],
                       outcome)
       IN  /\ net' = [made.net EXCEPT
                         !.state = IF net.state \in {"starting", "active"}
                                   THEN net.state
                                   ELSE IF made.raised = None THEN "active"
                                   ELSE "failed"]
           /\ result' = Outcome(made.raised, <<>>, <<>>, <<>>)
    /\ call' = [op |-> "connect", before |-> net]
    /\ UNCHANGED <<hookState, config, pc, outbox, ran, logged>>

\* TelegramTransport.connect
TelegramConnect ==
    /\ net.kind = "telegram" /\ Len(net.opened) < MaxOpened
    /\ net' = [net EXCEPT !.opened = Append(@, [type |-> "session", closes |-> 0]),
                          !.session = Len(net.opened) + 1,
                          !.state = IF net.state \in {"starting", "active"}
                                    THEN net.state ELSE "active"]
    /\ call' = [op |-> "connect", before |-> net]
    /\ result' = Nothing
    /\ UNCHANGED <<hookState, config, pc, outbox, ran, logged>>

\* SlackTransport.disconnect: the socket and the session that are held are
\* closed and forgotten.  cut records where get() was suspended.
SlackDisconnect ==
    /\ net.kind = "slack"
    /\ net' = [net EXCEPT
                  !.state = "inactive",
                  !.closing = TRUE,
                  !.opened = [i \in 1..Len(net.opened) |->
                                 IF i \in {net.socket, net.session}
                                 THEN [net.opened[i] EXCEPT !.closes = @ + 1]
                                 ELSE net.opened[i]],
                  !.socket = 0,
                  !.session = 0,
                  !.cut = IF net.get \in {"receive", "sleep"} THEN net.get ELSE @,
                  !.after = IF net.get \in {"receive", "sleep"} THEN FALSE ELSE @]
    /\ call' = [op |-> "disconnect", before |-> net]
    /\ result' = Nothing
    /\ UNCHANGED <<hookState, config, pc, outbox, ran, logged>>

\* TelegramTransport.disconnect
TelegramDisconnect ==
    /\ net.kind = "telegram"
    /\ net' = [net EXCEPT
                  !.state = "inactive",
                  !.opened = [i \in 1..Len(net.opened) |->
                                 IF i = net.session
                                 THEN [net.opened[i] EXCEPT !.closes = @ + 1]
                                 ELSE net.opened[i]],
                  !.session = 0,
                  !.offset = 0,
                  !.cut = IF net.get \in {"poll", "sleep"} THEN net.get ELSE @,
                  !.after = IF net.get \in {"poll", "sleep"} THEN FALSE ELSE @]
    /\ call' = [op |-> "disconnect", before |-> net]
    /\ result' = Nothing
    /\ UNCHANGED <<hookState, config, pc, outbox, ran, logged>>

\* get() has run from one suspension to the next, or has left: where it is
\* now and the exception that left it
Suspend(n, position, raised) ==
    [net |-> [n EXCEPT !.get = position, !.after = (n.cut # "no")],
     raised |-> raised]

\* json = await self._socket.receive_json()
Receive(n) ==
    IF n.socket = 0 THEN Suspend(n, "raised", "AttributeError")
    ELSE Suspend([n EXCEPT !.on = n.socket], "receive", None)

\* SlackTransport.get, from one suspension to the next.  A socket that was
\* closed only answers receive_json with TypeError.
SlackGet(event) ==
    /\ net.kind = "slack"
    /\ LET to ==
           CASE net.get \in {"new", "yielded"} /\ event = "next" -> Receive(net)
             [] net.get = "receive" /\ event = "message" ->
                    Suspend(net, "yielded", None)
             [] net.get = "receive" /\ event = "user_change" ->
                    Receive([net EXCEPT !.users = @ \cup {"dict"}])
             [] net.get = "receive" /\ event = "TypeError" ->
                    IF net.closing THEN Suspend(net, "ended", None)
                    ELSE IF net.socket = 0
                    THEN Suspend(net, "raised", "AttributeError")
                    ELSE Suspend([net EXCEPT !.opened[net.socket].closes = @ + 1],
                                 "close", None)
             [] net.get = "close" /\ event = "next" ->
                    Suspend([net EXCEPT !.socket = 0], "sleep", None)
             [] net.get = "sleep" /\ event = "next" ->
                    IF net.session = 0 THEN Suspend(net, "raised", "AttributeError")
                    ELSE Suspend(net, "rtm", None)
             [] net.get = "rtm" /\ event \in {"ok", "api_error", "socket_error"} ->
                    IF rtm(net, event).raised = None
                    THEN Receive(rtm(net, event).net)
                    ELSE Suspend(rtm(net, event).net, "raised", rtm(net, event).raised)
             [] OTHER -> Suspend(net, "none", None)
       IN  /\ to.net.get # "none"
           /\ net.get = "new" => net.state = "active"
           /\ (net.get = "receive" /\ event \in {"message", "user_change"})
                  => net.opened[net.on].closes = 0
           /\ Len(to.net.opened) <= MaxOpened
           /\ net' = to.net
           /\ result' = Outcome(to.raised, <<>>, <<>>, <<>>)
    /\ call' = [op |-> "get", before |-> net]
    /\ UNCHANGED <<hookState, config, pc, outbox, ran, logged>>

\* result = await self._api("getUpdates", ...) is started.  params, with
\* the offset asked, is built once before the retries.
Poll(n, retry) ==
    IF n.session = 0 THEN Suspend(n, "raised", "AttributeError")
    ELSE Suspend([n EXCEPT !.on = n.session, !.retry = retry,
                           !.asked = IF retry = 0 THEN n.offset ELSE @],
                 "poll", None)

\* Advance that moves the offset only past the updates that carry a message.
RECURSIVE AdvanceOnlyMessages(_)
AdvanceOnlyMessages(n) ==
    IF n.batch = <<>> THEN Poll(n, 0)
    ELSE IF Head(n.batch).message THEN Suspend(n, "yielded", None)
    ELSE AdvanceOnlyMessages([n EXCEPT !.batch = Tail(@)])

\* for update in result: up to the next yield, and then the next request
RECURSIVE Advance(_)
Advance(n) ==
    IF n.batch = <<>> THEN Poll(n, 0)
    ELSE IF Head(n.batch).message THEN Suspend(n, "yielded", None)
    ELSE Advance([n EXCEPT !.batch = Tail(@),
                           !.offset = IF Head(n.batch).id + 1 > @
                                      THEN Head(n.batch).id + 1 ELSE @])

\* The results of getUpdates: updates of ascending update_id, with or
\* without a message
Updates ==
    {u \in UNION {[1..n -> [id : 1..MaxUpdateId, message : BOOLEAN]] : n \in 0..2} :
        \A i \in 1..(Len(u) - 1) : u[i].id < u[i + 1].id}

\* TelegramTransport.get, from one suspension to the next.  getUpdates
\* gives updates from the offset asked on, and a request on a session that
\* was closed ends in a client error.
TelegramGet(event) ==
    /\ net.kind = "telegram"
    /\ LET to ==
           CASE net.get = "new" /\ event.type = "next" -> Poll(net, 0)
             [] net.get = "poll" /\ event.type = "closed" ->
                    Suspend(net, "raised", "ClientError")
             [] net.get = "poll" /\ event.type = "updates" ->
                    Advance([net EXCEPT !.batch = event.updates])
             [] net.get = "poll" /\ event.type = "api_error" ->
                    IF net.retry = 2 THEN Suspend(net, "raised", "TelegramAPIError")
                    ELSE Suspend(net, "sleep", None)
             [] net.get = "poll" /\ event.type = "timeout" ->
                    Suspend(net, "raised", "TimeoutError")
             [] net.get = "sleep" /\ event.type = "next" -> Poll(net, net.retry + 1)
             [] net.get = "yielded" /\ event.type = "next" ->
                    Advance([net EXCEPT !.batch = Tail(@),
                                        !.offset = IF Head(net.batch).id + 1 > @
                                                   THEN Head(net.batch).id + 1
                                                   ELSE @])
             [] OTHER -> Suspend(net, "none", None)
       IN  /\ to.net.get # "none"
           /\ net.get = "new" => net.state = "active"
           /\ (net.get = "poll")
                  => ((event.type = "closed") <=> (net.opened[net.on].closes > 0))
           /\ (event.type = "updates")
                  => \A i \in 1..Len(event.updates) : event.updates[i].id >= net.asked
           /\ net' = to.net
           /\ result' = Outcome(to.raised, <<>>, <<>>, <<>>)
    /\ call' = [op |-> "get", before |-> net, event |-> event]
    /\ UNCHANGED <<hookState, config, pc, outbox, ran, logged>>

\* The messages given to put: deleted or not, with so many file attachments
\* (image files for Telegram), with or without a text
PutMessages == [deleted : BOOLEAN, files : 0..MaxFiles, text : BOOLEAN]

\* What put gave: the exception it raised, or what it returned (a list or
\* None) and the ids in the list
Put(raised, returned, ids) == [raised |-> raised, returned |-> returned, ids |-> ids]

\* SlackTransport.put.  Every conversations.history answer shows the
\* messages of `found` of the uploaded files (their ts are 1..found); the
\* ts of the posted message is 0.
SlackPut(msg, found, outcome) ==
    /\ net.kind = "slack" /\ net.state = "active"
    /\ found <= msg.files
    /\ result' = IF msg.deleted THEN Put(None, "None", <<>>)
                 ELSE IF net.session = 0 THEN Put("AttributeError", "None", <<>>)
                 ELSE IF outcome = "api_error" THEN Put("SlackAPIError", "None", <<>>)
                 ELSE Put(None, "list",
                          [i \in 1..(msg.files * found) |-> ((i - 1) % found) + 1]
                              \o <<0>>)
    /\ call' = [op |-> "put", msg |-> msg, found |-> found, before |-> net]
    /\ UNCHANGED <<hookState, config, pc, outbox, ran, logged, net>>

\* TelegramTransport.put: one request for each image and one for the text;
\* the message_id of the i-th request is i.
TelegramPut(msg, outcome) ==
    /\ net.kind = "telegram" /\ net.state = "active"
    /\ LET parts == msg.files + (IF msg.text THEN 1 ELSE 0)
       IN  result' = IF msg.deleted \/ parts = 0 THEN Put(None, "list", <<>>)
                     ELSE IF net.session = 0 THEN Put("AttributeError", "None", <<>>)
                     ELSE IF outcome = "api_error"
                     THEN Put("TelegramAPIError", "None", <<>>)
                     ELSE Put(None, "list", [i \in 1..parts |-> i])
    /\ call' = [op |-> "put", msg |-> msg, found |-> 0, before |-> net]
    /\ UNCHANGED <<hookState, config, pc, outbox, ran, logged, net>>

\* A transport of either kind: its connect, disconnect and put called in
\* any order, and its get() resumed, under any outcome of the network.
InitNet ==
    /\ hookState = [h \in Hooks |-> "inactive"]
    /\ config \in {Config(Prefixes, FALSE, <<>>)}
    /\ pc = "idle"
    /\ call = NoCall
    /\ result = Nothing
    /\ outbox = <<>>
    /\ ran = <<>>
    /\ logged = <<>>
    /\ net \in {Fresh("slack"), Fresh("telegram")}

NextNet ==
    \/ \E outcome \in {"ok", "api_error", "socket_error"} : SlackConnect(outcome)
    \/ TelegramConnect
    \/ SlackDisconnect
    \/ TelegramDisconnect
    \/ \E event \in {"next", "message", "user_change", "TypeError", "ok",
                     "api_error", "socket_error"} : SlackGet(event)
    \/ \E event \in [type : {"next", "closed", "api_error", "timeout"}]
                       \cup {[type |-> "updates", updates |-> u] :
                                u \in Updates} : TelegramGet(event)
    \/ \E msg \in PutMessages, found \in 0..MaxFiles, outcome \in {"ok", "api_error"} :
           SlackPut(msg, found, outcome)
    \/ \E msg \in PutMessages, outcome \in {"ok", "api_error"} :
           TelegramPut(msg, outcome)

SpecNet == InitNet /\ [][NextNet]_vars

(***************************************************************************)
(* What the specification says of resolution, stated on the configuration  *)
(* and the hooks, apart from the code of commands()                        *)
(***************************************************************************)
\* A group matches a channel: by its plug lists, or by its channel list.
Matches(group, channel) ==
    \/ InSeq(channel.plug, group.plugs.anywhere)
    \/ channel.private /\ InSeq(channel.plug, group.plugs.private)
    \/ ~channel.private /\ InSeq(channel.plug, group.plugs.shared)
    \/ \E i \in 1..Len(group.channels) :
           /\ group.channels[i] \in DOMAIN HostChannels
           /\ HostChannels[group.channels[i]] = channel

\* A group includes the command `name` of `hook`: it lists the hook, or one
\* of its sets names the command.
Includes(cfg, group, hook, name) ==
    \/ InSeq(hook, group.hooks)
    \/ \E j \in 1..Len(group.sets) :
           /\ group.sets[j] \in DOMAIN cfg.sets
           /\ \E m \in 1..Len(cfg.sets[group.sets[j]]) :
                  /\ cfg.sets[group.sets[j]][m][1] = hook
                  /\ InSeq(name, cfg.sets[group.sets[j]][m][2])

Declared(hook) == {HookCommands[hook][i] : i \in 1..Len(HookCommands[hook])}

AdminIn(group, user) ==
    user.plug # None /\ <<user.plug, user.id>> \in group.admins

\* The command may be used in a channel of this privacy by such a user.
Usable(hook, cmd, private, admin) ==
    /\ cmd.scope = "private" => private
    /\ cmd.scope = "shared" => ~private
    /\ cmd.role = "admin" => admin
    /\ cmd.test # None => HasFeature[hook]

\* The <<hook, command>> pairs a group offers in a channel to a user.
Offered(cfg, states, group, channel, user) ==
    {hc \in UNION {{<<h, c>> : c \in Declared(h)} : h \in Hooks} :
        /\ states[hc[1]] = "active"
        /\ Includes(cfg, group, hc[1], hc[2].name)
        /\ Usable(hc[1], hc[2], channel.private, AdminIn(group, user))}

MatchingOffers(cfg, states, channel, user) ==
    UNION {Offered(cfg, states, cfg.groups[gi], channel, user)
              : gi \in {k \in 1..Len(cfg.groups) : Matches(cfg.groups[k], channel)}}

\* Two commands of different hooks with the same name are both offered.
Ambiguous(cfg, states, channel, user) ==
    \E x \in MatchingOffers(cfg, states, channel, user) :
    \E y \in MatchingOffers(cfg, states, channel, user) :
        x[1] # y[1] /\ x[2].name = y[2].name

Resolving == pc = "returned" /\ call.op = "commands"

(***************************************************************************)
(* C1: commands(channel, user) raises ConfigError whenever two distinct    *)
(* commands exposed by different hooks have the same lower-case name and   *)
(* are both applicable in the context through matching groups; it then     *)
(* never returns a mapping that contains one of the two.                   *)
(***************************************************************************)
C1_AmbiguousRaisesConfigError ==
    (Resolving /\ Ambiguous(config, hookState, call.channel, call.user))
        => result.kind = "ConfigError"

\* The part of C1 the code keeps: no mapping is returned for an ambiguous
\* context.
C1_AmbiguousNeverMapped ==
    (Resolving /\ Ambiguous(config, hookState, call.channel, call.user))
        => result.kind # "ok"

(***************************************************************************)
(* C3: the mapping commands() returns holds no command of scope private    *)
(* when the channel is not private and no command of scope shared when the *)
(* channel is private, for every configuration, channel and user.          *)
(***************************************************************************)
C3_ScopeRespected ==
    (Resolving /\ result.kind = "ok") =>
        \A b \in result.cmds :
            /\ b.cmd.scope = "private" => call.channel.private
            /\ b.cmd.scope = "shared" => ~call.channel.private

\* An admin resolves in a shared channel where a matching group lists an
\* active hook that declares a private-only command, and gets a mapping.
C3_Witness ==
    /\ Resolving /\ result.kind = "ok" /\ result.cmds # {}
    /\ ~call.channel.private
    /\ \E gi \in 1..Len(config.groups) :
           /\ Matches(config.groups[gi], call.channel)
           /\ AdminIn(config.groups[gi], call.user)
           /\ \E h \in Hooks :
                  /\ hookState[h] = "active"
                  /\ InSeq(h, config.groups[gi].hooks)
                  /\ \E c \in Declared(h) : c.scope = "private"

(***************************************************************************)
(* C4: admin status is evaluated per matching group: an admin-only command *)
(* is in the mapping only if some matching group both includes the command *)
(* (through its hooks or sets) and lists the user's id under admins for    *)
(* the user's plug; a user with no plug is never admin.                    *)
(***************************************************************************)
C4_AdminPerGroup ==
    (Resolving /\ result.kind = "ok") =>
        \A b \in result.cmds :
            b.cmd.role = "admin" =>
                /\ call.user.plug # None
                /\ \E gi \in 1..Len(config.groups) :
                       /\ Matches(config.groups[gi], call.channel)
                       /\ Includes(config, config.groups[gi], b.hook, b.cmd.name)
                       /\ <<call.user.plug, call.user.id>> \in config.groups[gi].admins

\* The user is admin of one matching group; another matching group, of which
\* the user is not admin, includes an admin-only command of an active hook;
\* the mapping is returned without that command.
C4_Witness ==
    /\ Resolving /\ result.kind = "ok"
    /\ \E gi \in 1..Len(config.groups) :
           /\ Matches(config.groups[gi], call.channel)
           /\ AdminIn(config.groups[gi], call.user)
    /\ \E gj \in 1..Len(config.groups) : \E h \in Hooks : \E c \in Declared(h) :
           /\ Matches(config.groups[gj], call.channel)
           /\ ~AdminIn(config.groups[gj], call.user)
           /\ hookState[h] = "active" /\ c.role = "admin" /\ c.test = None
           /\ Includes(config, config.groups[gj], h, c.name)
           /\ \A b \in result.cmds : ~(b.hook = h /\ b.cmd = c)

(***************************************************************************)
(* C5: a group contributes commands for a channel if and only if the       *)
(* channel's plug is in its anywhere list, or in its private list while    *)
(* the channel is private, or in its shared list while it is not, or the   *)
(* channel is one of the channels of its channel list, whatever the        *)
(* channel's privacy and the plug lists.                                   *)
(***************************************************************************)
C5_GroupContributesIffMatches ==
    (Resolving /\ result.kind = "ok") =>
        /\ \A b \in result.cmds : Matches(config.groups[b.oid[1]], call.channel)
        /\ \A gi \in 1..Len(config.groups) :
               Matches(config.groups[gi], call.channel) =>
                   \A hc \in Offered(config, hookState, config.groups[gi],
                                     call.channel, call.user) :
                       \E b \in result.cmds :
                           b.hook = hc[1] /\ b.cmd = hc[2] /\ b.oid[1] = gi

\* A group matched by its channel list alone, whose private list names the
\* plug of the shared channel, contributes a command.
C5_Witness ==
    /\ Resolving /\ result.kind = "ok"
    /\ ~call.channel.private
    /\ \E b \in result.cmds :
           /\ ~InSeq(call.channel.plug, config.groups[b.oid[1]].plugs.anywhere)
           /\ ~InSeq(call.channel.plug, config.groups[b.oid[1]].plugs.shared)
           /\ InSeq(call.channel.plug, config.groups[b.oid[1]].plugs.private)

(***************************************************************************)
(* C6: discover(hook) returns an empty table for a hook in any state other *)
(* than active, and the mapping commands() returns never contains a        *)
(* command bound to a hook that is not active at the time of the call.     *)
(***************************************************************************)
C6_OnlyActiveHooks ==
    /\ \A h \in Hooks :
           hookState[h] # "active" => discover(h, hookState, <<0, "hooks", 0, 0>>) = {}
    /\ (Resolving /\ result.kind = "ok") =>
           \A b \in result.cmds : hookState[b.hook] = "active"

\* A mapping with a command is returned while a matching group lists a hook
\* that failed to start.
C6_Witness ==
    /\ Resolving /\ result.kind = "ok" /\ result.cmds # {}
    /\ \E gi \in 1..Len(config.groups) : \E h \in Hooks :
           /\ Matches(config.groups[gi], call.channel)
           /\ InSeq(h, config.groups[gi].hooks)
           /\ hookState[h] = "failed"

(***************************************************************************)
(* C7: Command.valid(args) raises ValueError exactly when the number of    *)
(* arguments is less than the number of parameters that have no default    *)
(* and are not variadic, or exceeds the number of declared parameters      *)
(* while no parameter is variadic.  For (a, b=default): 0 rejected, 1 and  *)
(* 2 accepted, 3 rejected.                                                 *)
(***************************************************************************)
Validating == pc = "returned" /\ call.op = "valid"

RequiredCount(params) ==
    Cardinality({i \in 1..Len(params) : ~params[i].hasDefault /\ ~params[i].variadic})

HasVariadic(params) == \E i \in 1..Len(params) : params[i].variadic

C7_ValidArity ==
    Validating =>
        /\ (result.raised = "ValueError") <=>
               \/ call.nargs < RequiredCount(call.params)
               \/ call.nargs > Len(call.params) /\ ~HasVariadic(call.params)
        /\ result.raised \in {None, "ValueError"}
        /\ call.params = <<Param("r", FALSE, FALSE), Param("o", TRUE, FALSE)>> =>
               ((result.raised = None) <=> call.nargs \in {1, 2})

\* A signature with a required and a variadic parameter accepts more
\* arguments than it declares parameters.
C7_Witness ==
    /\ Validating
    /\ call.params = <<Param("r", FALSE, FALSE), Param("v", FALSE, TRUE)>>
    /\ call.nargs > 2
    /\ result.raised = None

(***************************************************************************)
(* What the specification says of dispatch, stated on the message          *)
(***************************************************************************)
Receiving == pc = "returned" /\ call.op = "on_receive"

\* The message is one the dispatcher considers.
Considered ==
    /\ call.primary
    /\ call.sent.user # NoUser
    /\ call.sent.text.some /\ call.sent.text.text # <<>>

\* What follows the first matching prefix, split into name and trailing text
\* (the empty sequence when no prefix matches).
AfterPrefix(cfg, text) ==
    IF FirstPrefix(cfg.prefix, Lower(text), 1) = 0 THEN <<>>
    ELSE SplitMax1(Drop(text, Len(cfg.prefix[FirstPrefix(cfg.prefix, Lower(text), 1)])))

\* The commands of the mapping that the message names.
Named(cfg, states, sent) ==
    IF AfterPrefix(cfg, sent.text.text) = <<>> THEN {}
    ELSE {b \in commands(cfg, states, sent.channel, sent.user).cmds :
             b.cmd.name = Lower(AfterPrefix(cfg, sent.text.text)[1])}

TrailingOf(raw) == IF Len(raw) = 2 THEN Present(raw[2]) ELSE Absent

\* The trailing text of the message fails parsing or arity validation for
\* the command.
Rejected(cfg, sent, cmd) ==
    \/ ~parse(cmd, TrailingOf(AfterPrefix(cfg, sent.text.text))).ok
    \/ ~valid(cmd, parse(cmd, TrailingOf(AfterPrefix(cfg, sent.text.text))).args)

CommandOf(hook, name) ==
    CHOOSE c \in Declared(hook) : c.name = name

(***************************************************************************)
(* C2: for every inbound message and every failure raised by a command     *)
(* body other than BadUsage, on_receive returns normally: the failure does *)
(* not propagate out of the dispatcher.                                    *)
(***************************************************************************)
C2_BodyFailureContained ==
    (Receiving /\ call.does.kind = "raise" /\ call.does.cls # "BadUsage") =>
        /\ Len(ran) = 1
        /\ result.raised = None

\* The body of a command raised RuntimeError and on_receive returned, the
\* exception logged.
C2_Witness ==
    /\ Receiving
    /\ call.does.kind = "raise" /\ call.does.cls = "RuntimeError"
    /\ Len(ran) = 1 /\ ran[1].hook = "B"
    /\ logged = <<"RuntimeError">>
    /\ result.raised = None

(***************************************************************************)
(* C8: when the trailing text of a resolved command fails parsing (an      *)
(* unbalanced quote in quote-aware mode) or arity validation, on_receive   *)
(* does not invoke the body, sends that command's help text to the source  *)
(* channel, and returns without raising.                                   *)
(***************************************************************************)
C8_RejectedArgumentsGetHelp ==
    (Receiving /\ Considered) =>
        \A b \in Named(config, hookState, call.sent) :
            Rejected(config, call.sent, b.cmd) =>
                /\ ran = <<>>
                /\ outbox = <<Message(call.sent.channel, TRUE, HelpText(b.cmd))>>
                /\ result.raised = None

\* "!q '" : the quote-aware command q with an unclosed quote.
C8_Witness ==
    /\ Receiving /\ Considered
    /\ call.sent.text.text = <<"!", "q", " ", "'">>
    /\ \E b \in Named(config, hookState, call.sent) :
           /\ b.cmd.parser = "shlex"
           /\ Rejected(config, call.sent, b.cmd)
    /\ ran = <<>> /\ Len(outbox) = 1

(***************************************************************************)
(* C9: when a command body raises BadUsage, the dispatcher sends exactly   *)
(* one message to the source channel, the help text (name, argument        *)
(* summary, description) of the command that was invoked, not that of      *)
(* another command and not an error summary.                               *)
(***************************************************************************)
C9_BadUsageGetsHelp ==
    (Receiving /\ call.does = RaisesBadUsage) =>
        /\ Len(ran) = 1
        /\ outbox = <<Message(call.sent.channel, TRUE,
                              HelpText(CommandOf(ran[1].hook, ran[1].name)))>>
        /\ outbox[1].segs[1] = Segment(ran[1].name, TRUE, FALSE)

\* The body of q raised BadUsage and one message was sent.
C9_Witness ==
    /\ Receiving /\ call.does = RaisesBadUsage
    /\ Len(ran) = 1 /\ ran[1].name = <<"q">>
    /\ Len(outbox) = 1 /\ Len(outbox[1].segs) = 4

(***************************************************************************)
(* C10: on_receive runs no command and sends nothing when the delivery is  *)
(* not primary, or the message has no user, or it has no text or an empty  *)
(* text, whatever the text would otherwise match.                          *)
(***************************************************************************)
C10_OnlyPrimaryWithUserAndText ==
    (Receiving /\ ~Considered) =>
        /\ ran = <<>>
        /\ outbox = <<>>
        /\ result.raised = None

\* A delivery that is not primary, or has no user, of a text that names a
\* command and would run it.
C10_Witness ==
    /\ Receiving /\ ~Considered
    /\ call.sent.text.some
    /\ on_receive(config, hookState,
                  [call.sent EXCEPT !.user = Usr("p1", "u1")], TRUE, Returns).ran # <<>>
    /\ ran = <<>> /\ outbox = <<>>

(***************************************************************************)
(* C11: a message whose text starts with none of the configured prefixes   *)
(* (letter case set aside) runs no command body and has the dispatcher     *)
(* send nothing; on_receive returns without raising.                       *)
(***************************************************************************)
NoPrefixMatch(cfg, text) ==
    \A i \in 1..Len(cfg.prefix) : ~StartsWith(Lower(text), Lower(cfg.prefix[i]))

C11_NoPrefixNoCommand ==
    (Receiving /\ call.sent.text.some /\ NoPrefixMatch(config, call.sent.text.text)) =>
        /\ ran = <<>>
        /\ outbox = <<>>
        /\ result.raised = None

\* "h!h" from a user, primary, under the prefix "!": the text names the help
\* command and holds the prefix, but does not start with it.
C11_Witness ==
    /\ Receiving /\ Considered
    /\ config.prefix = << <<"!">> >>
    /\ call.sent.text.text = <<"h", "!", "h">>
    /\ NoPrefixMatch(config, call.sent.text.text)
    /\ ran = <<>> /\ outbox = <<>>

(***************************************************************************)
(* C12: prefix matching is case-insensitive in both directions: whenever   *)
(* lower(text) starts with lower(prefix) for a configured prefix, also one *)
(* that holds upper-case letters, the message is treated as a command      *)
(* invocation, and the name token is lower-cased before lookup.  So a      *)
(* message that names a resolved command after such a prefix is acted on:  *)
(* the body runs or the help text is sent.                                 *)
(***************************************************************************)
LoweredPrefixes(cfg) ==
    [cfg EXCEPT !.prefix = [i \in 1..Len(cfg.prefix) |-> Lower(cfg.prefix[i])]]

C12_PrefixCaseInsensitive ==
    (/\ Receiving /\ Considered
     /\ Named(LoweredPrefixes(config), hookState, call.sent) # {})
        => (ran # <<>> \/ outbox # <<>>)

\* The direction the code keeps: under lower-case prefixes a text in any
\* letter case that names a resolved command is acted on.
C12_LowerCasePrefixes ==
    (/\ Receiving /\ Considered
     /\ LoweredPrefixes(config) = config
     /\ Named(config, hookState, call.sent) # {})
        => (ran # <<>> \/ outbox # <<>>)

(***************************************************************************)
(* C13: when a prefix matches but the name that follows it is not in       *)
(* commands(channel, user), on_receive runs no command body, sends no      *)
(* message and returns without raising.                                    *)
(***************************************************************************)
C13_NameMissIgnored ==
    (/\ Receiving /\ Considered
     /\ AfterPrefix(config, call.sent.text.text) # <<>>
     /\ commands(config, hookState, call.sent.channel, call.sent.user).kind = "ok"
     /\ Named(config, hookState, call.sent) = {})
        => /\ ran = <<>>
           /\ outbox = <<>>
           /\ result.raised = None

\* "!q" while hook B, which declares q, is not active.
C13_Witness ==
    /\ Receiving /\ Considered
    /\ call.sent.text.text = <<"!", "q">>
    /\ AfterPrefix(config, call.sent.text.text) = << <<"q">> >>
    /\ hookState["B"] # "active"
    /\ Named(config, hookState, call.sent) = {}
    /\ ran = <<>> /\ outbox = <<>> /\ result.raised = None

(***************************************************************************)
(* C14: after a command body fails with an exception other than BadUsage,  *)
(* the dispatcher sends an error summary to the source channel if and only *)
(* if return-errors is true; with return-errors false, the default, it     *)
(* sends nothing for that message.                                         *)
(***************************************************************************)
BodyFailed ==
    Receiving /\ call.does.kind = "raise" /\ call.does.cls # "BadUsage"

C14_SummaryIffReturnErrors ==
    BodyFailed =>
        /\ config.returnErrors =>
               outbox = <<Message(call.sent.channel, FALSE,
                                  ErrorSummary(call.does.cls, call.does.msg))>>
        /\ ~config.returnErrors => outbox = <<>>
        /\ ~DefaultReturnErrors

\* A body raised RuntimeError under the default return-errors: logged, and
\* nothing sent.
C14_Witness ==
    /\ BodyFailed
    /\ config.returnErrors = DefaultReturnErrors
    /\ call.does.cls = "RuntimeError"
    /\ logged = <<"RuntimeError">>
    /\ outbox = <<>>

\* A body raised KeyError under return-errors: one summary sent.
C14_WitnessSummary ==
    /\ BodyFailed
    /\ config.returnErrors
    /\ call.does.cls = "KeyError"
    /\ Len(outbox) = 1

(***************************************************************************)
(* C15: a malformed reference in the configuration (a group naming an      *)
(* unknown hook, an unknown set label or an unknown channel label, or a    *)
(* set naming a command its hook does not expose) makes commands() fail    *)
(* with ConfigError: with no other kind of error, and with no mapping.     *)
(***************************************************************************)
UnknownHook(group) ==
    \E i \in 1..Len(group.hooks) : group.hooks[i] \notin Hooks

UnknownSet(cfg, group) ==
    \E j \in 1..Len(group.sets) : group.sets[j] \notin DOMAIN cfg.sets

UnknownChannel(group) ==
    \E i \in 1..Len(group.channels) : group.channels[i] \notin DOMAIN HostChannels

\* A set of the group names a hook the host does not have, or a command the
\* hook does not declare.
UnknownCommand(cfg, group) ==
    \E j \in 1..Len(group.sets) :
        /\ group.sets[j] \in DOMAIN cfg.sets
        /\ \E m \in 1..Len(cfg.sets[group.sets[j]]) :
               \/ cfg.sets[group.sets[j]][m][1] \notin Hooks
               \/ \E k \in 1..Len(cfg.sets[group.sets[j]][m][2]) :
                      \A c \in Declared(cfg.sets[group.sets[j]][m][1]) :
                          c.name # cfg.sets[group.sets[j]][m][2][k]

MalformedFor(cfg, channel) ==
    \E gi \in 1..Len(cfg.groups) :
        \/ UnknownChannel(cfg.groups[gi])
        \/ /\ Matches(cfg.groups[gi], channel)
           /\ \/ UnknownHook(cfg.groups[gi])
              \/ UnknownSet(cfg, cfg.groups[gi])
              \/ UnknownCommand(cfg, cfg.groups[gi])

C15_MalformedRaisesConfigError ==
    (Resolving /\ MalformedFor(config, call.channel)) => result.kind = "ConfigError"

\* What the code does: an unknown hook, set or command in a matching group
\* ends the call with KeyError.
C15_MalformedRaisesKeyError ==
    (/\ Resolving
     /\ \E gi \in 1..Len(config.groups) :
            /\ Matches(config.groups[gi], call.channel)
            /\ \/ UnknownHook(config.groups[gi])
               \/ UnknownSet(config, config.groups[gi])
               \/ UnknownCommand(config, config.groups[gi]))
        => result.kind = "KeyError"

(***************************************************************************)
(* C16: commands(channel, user) is deterministic: two calls with the same  *)
(* configuration, hook states, channel and user either both return         *)
(* mappings with the same names bound to the same (hook, command) pairs,   *)
(* or both fail with the ambiguous-name ConfigError, whatever the order in *)
(* which the set of commands is iterated.                                  *)
(***************************************************************************)
\* name -> (hook, command) of a mapping
Pairs(cmds) == {<<b.cmd.name, b.hook, b.cmd>> : b \in cmds}

C16_Deterministic ==
    Resolving =>
        \A rev \in BOOLEAN :
            \/ /\ result.kind = "ok"
               /\ commandsIn(config, hookState, call.channel, call.user, rev).kind = "ok"
               /\ Pairs(commandsIn(config, hookState, call.channel, call.user, rev).cmds)
                      = Pairs(result.cmds)
            \/ /\ result.kind = "ConfigError"
               /\ commandsIn(config, hookState, call.channel, call.user, rev).kind
                      = "ConfigError"

\* The part of C16 the code keeps: the two calls end the same way, with the
\* same mapping or the same kind of error.
C16_SameOutcome ==
    Resolving =>
        \A rev \in BOOLEAN :
            /\ commandsIn(config, hookState, call.channel, call.user, rev).kind
                   = result.kind
            /\ Pairs(commandsIn(config, hookState, call.channel, call.user, rev).cmds)
                   = Pairs(result.cmds)

(***************************************************************************)
(* C17: Slack round trip: for every rich text whose segments carry         *)
(* non-overlapping attributes (one attribute at most on a segment) and     *)
(* whose text holds no escaped delimiter, normalise(from_mrkdwn(           *)
(* to_mrkdwn(x))) has the segments of normalise(x), also when a formatted  *)
(* segment is next to plain alphanumeric text.                             *)
(***************************************************************************)
RoundTripped == pc = "returned" /\ call.op = "round_trip"

NonOverlapping(rich) == \A i \in 1..Len(rich) : Cardinality(rich[i].attrs) <= 1

C17_SlackRoundTrip ==
    (RoundTripped /\ NonOverlapping(call.rich))
        => normalise(result) = normalise(call.rich)

(***************************************************************************)
(* C18: the markup to_mrkdwn writes is well nested for every sequence of   *)
(* segments: each closing tag closes the tag opened last among those still *)
(* open, also when an attribute opened earlier turns off while one opened  *)
(* later stays on, and every tag is closed at the end.                     *)
(***************************************************************************)
Encoded == pc = "returned" /\ call.op = "to_mrkdwn"

\* The marks, read from the state `open` of the tags not yet closed, close
\* last-opened-first and leave nothing open.
RECURSIVE Nested(_, _)
Nested(marks, open) ==
    IF marks = <<>> THEN open = <<>>
    ELSE IF Head(marks)[1] = "open"
    THEN Nested(Tail(marks), Append(open, Head(marks)[2]))
    ELSE /\ open # <<>>
         /\ open[Len(open)] = Head(marks)[2]
         /\ Nested(Tail(marks), SubSeq(open, 1, Len(open) - 1))

C18_WellNested == Encoded => Nested(result.marks, <<>>)

\* The part of C18 the code keeps: no tag is left open at the end, and no
\* tag is closed that is not open.
RECURSIVE Balanced(_, _)
Balanced(marks, open) ==
    IF marks = <<>> THEN open = {}
    ELSE IF Head(marks)[1] = "open"
    THEN Head(marks)[2] \notin open /\ Balanced(Tail(marks), open \cup {Head(marks)[2]})
    ELSE Head(marks)[2] \in open /\ Balanced(Tail(marks), open \ {Head(marks)[2]})

C18_AllClosed == Encoded => Balanced(result.marks, {})

(***************************************************************************)
(* C19: decoding from interval annotations: every emitted segment has an   *)
(* attribute set if and only if its span lies inside an annotation         *)
(* interval of that attribute, so it carries all the attributes active at  *)
(* its start, also when the span starts at a breakpoint that another       *)
(* attribute introduced (nested or overlapping intervals).                 *)
(***************************************************************************)
Annotating == pc = "returned" /\ call.op = "from_entities"

\* The spans (start, end) of the segments from_entities emitted
CallSpans == Spans(call.text, EntityChanges(NoChanges(Len(call.text)), call.entities))

Covered(span, type, entities) ==
    \E k \in 1..Len(entities) :
        /\ entities[k].type = type
        /\ entities[k].offset <= span[1]
        /\ span[2] <= entities[k].offset + entities[k].length

C19_CumulativeAttributes ==
    Annotating =>
        \A i \in 1..Len(result) : \A a \in FormatTypes :
            (a \in result[i].attrs) <=> Covered(CallSpans[i], a, call.entities)

(***************************************************************************)
(* C20: for any intervals lying within the text, listed in any order,      *)
(* decoding walks the breakpoints in ascending order of offset and emits   *)
(* no segment with empty text; the adjacent intervals (0,5) and (5,10)     *)
(* over a text of ten characters give exactly two segments.                *)
(***************************************************************************)
C20_AscendingNoEmptySegment ==
    Annotating =>
        /\ \A i \in 1..Len(result) : result[i].text # <<>>
        /\ \A i \in 1..Len(CallSpans) : CallSpans[i][1] < CallSpans[i][2]
        /\ \A i \in 1..Len(CallSpans) : \A j \in 1..Len(CallSpans) :
               i < j => CallSpans[i][2] <= CallSpans[j][1]
        /\ (/\ call.text = LongText
            /\ call.entities = <<Entity("bold", 0, 5), Entity("italic", 5, 5)>>)
               => Len(result) = 2

\* The example of C20, which the code keeps.
C20_AdjacentExample ==
    (/\ Annotating
     /\ call.text = LongText
     /\ call.entities = <<Entity("bold", 0, 5), Entity("italic", 5, 5)>>)
        => result = <<RichSegment(SubSeq(LongText, 1, 5), {"bold"}),
                      RichSegment(SubSeq(LongText, 6, 10), {"italic"})>>

(***************************************************************************)
(* C21: when an annotation of an attribute ends at offset k and another    *)
(* annotation of the same attribute starts at k, the turn-off is applied   *)
(* before the turn-on: every span that starts at k carries the attribute,  *)
(* whichever of the two annotations is listed first.                       *)
(***************************************************************************)
\* Entity a ends where entity b, of the same formatting type, starts
Adjoining(entities, a, b) ==
    /\ a # b
    /\ entities[a].type = entities[b].type
    /\ entities[a].type \in FormatTypes
    /\ entities[a].offset + entities[a].length = entities[b].offset

OnFrom(entities, b) ==
    \A i \in 1..Len(result) :
        (CallSpans[i][1] = entities[b].offset /\ CallSpans[i][1] < CallSpans[i][2])
            => entities[b].type \in result[i].attrs

C21_TurnOffBeforeTurnOn ==
    Annotating =>
        \A a \in 1..Len(call.entities) : \A b \in 1..Len(call.entities) :
            Adjoining(call.entities, a, b) => OnFrom(call.entities, b)

\* The part of C21 the code keeps: the annotation that ends at k is listed
\* before the one that starts at k.
C21_EndingListedFirst ==
    Annotating =>
        \A a \in 1..Len(call.entities) : \A b \in 1..Len(call.entities) :
            (Adjoining(call.entities, a, b) /\ a < b) => OnFrom(call.entities, b)

(***************************************************************************)
(* C22: in Slack inline scanning a delimiter is never taken as opening     *)
(* when it is preceded by a delimiter character or an alphanumeric         *)
(* character of either case, or followed by whitespace or by its own       *)
(* delimiter character; and never taken as closing when it is preceded by  *)
(* whitespace or its own delimiter character, or followed by an            *)
(* alphanumeric or a delimiter character.                                  *)
(***************************************************************************)
Decoding == pc = "returned" /\ call.op = "from_mrkdwn"

DelimiterChar(c) == c \in {"*", "_", "~", Backtick}

Alphanumeric(c) ==
    \/ OutsideChar(c) /\ ~DelimiterChar(c)
    \/ c \in {"A", "B", "C", "D", "E", "F", "G", "H", "I", "J", "K", "L", "M",
              "N", "O", "P", "Q", "R", "S", "T", "U", "V", "W", "X", "Y", "Z"}

\* The matches the loop of from_mrkdwn takes, each with the text it was
\* found in (the tags of the matches before it are stripped already)
RECURSIVE Taken(_)
Taken(text) ==
    IF Starts(text) = {} THEN <<>>
    ELSE LET match == Search(text)
         IN  <<[text |-> text, match |-> match]>>
             \o Taken(SubSeq(text, 1, match.start) \o match.group
                          \o SubSeq(text, match.end + 1, Len(text)))

ValidOpening(text, match) ==
    /\ (match.start >= 1) =>
           ~(DelimiterChar(text[match.start]) \/ Alphanumeric(text[match.start]))
    /\ ~IsSpace(Head(match.group))
    /\ Head(match.group) # Head(match.tag)

ValidClosing(text, match) ==
    /\ ~IsSpace(match.group[Len(match.group)])
    /\ match.group[Len(match.group)] # Head(match.tag)
    /\ (match.end < Len(text)) =>
           ~(DelimiterChar(text[match.end + 1]) \/ Alphanumeric(text[match.end + 1]))

C22_DelimiterContext ==
    Decoding =>
        \A k \in 1..Len(Taken(call.text)) :
            /\ ValidOpening(Taken(call.text)[k].text, Taken(call.text)[k].match)
            /\ ValidClosing(Taken(call.text)[k].text, Taken(call.text)[k].match)

\* The part of C22 the code keeps: the characters of _outside_chars (digits,
\* lower-case letters, *, _ and ~) around the pair, and whitespace inside it.
C22_OutsideCharsAndSpace ==
    Decoding =>
        \A k \in 1..Len(Taken(call.text)) :
            LET text == Taken(call.text)[k].text
                match == Taken(call.text)[k].match
            IN  /\ (match.start >= 1) => ~OutsideChar(text[match.start])
                /\ ~IsSpace(Head(match.group))
                /\ ~IsSpace(match.group[Len(match.group)])
                /\ (match.end < Len(text)) => ~OutsideChar(text[match.end + 1])

(***************************************************************************)
(* C23: in Slack inline scanning a delimiter character that follows the    *)
(* escape character (backslash) is never used as an opening or a closing   *)
(* delimiter: it stays in the text of the segments as a literal character, *)
(* and a text whose only delimiters are escaped parses to one segment with *)
(* no formatting attribute.                                                *)
(***************************************************************************)
\* The places of text (from 2) that hold a delimiter character after a backslash
Escaped(text) ==
    {i \in 2..Len(text) : DelimiterChar(text[i]) /\ text[i - 1] = "\\"}

OnlyEscaped(text) ==
    \A i \in 1..Len(text) : DelimiterChar(text[i]) => i \in Escaped(text)

C23_EscapedDelimiterIsLiteral ==
    Decoding =>
        /\ \A k \in 1..Len(Taken(call.text)) :
               LET text == Taken(call.text)[k].text
                   match == Taken(call.text)[k].match
               IN  /\ (match.start + 1) \notin Escaped(text)
                   /\ (match.end - Len(match.tag) + 1) \notin Escaped(text)
        /\ Cardinality(Escaped(Formatted(call.text, NoChanges(Len(call.text))).text))
               = Cardinality(Escaped(call.text))
        /\ (Escaped(call.text) # {}) =>
               \E i \in 1..Len(result) :
                   \E j \in 1..Len(result[i].text) :
                       DelimiterChar(result[i].text[j])
        /\ (OnlyEscaped(call.text) /\ call.text # <<>>) =>
               result = <<RichSegment(call.text, {})>>

\* A text is parsed in which the only delimiter able to close the opening
\* one is escaped, and one whose delimiters are all escaped
C23_Witness ==
    /\ Decoding
    /\ Escaped(call.text) # {}
    /\ \E i \in 1..Len(call.text) :
           /\ OpensAt(call.text, i, <<call.text[i]>>)
           /\ ClosesAtEscaped(call.text, Len(call.text), <<call.text[i]>>)
    /\ result = <<RichSegment(call.text, {})>>

(***************************************************************************)
(* C24: connect() on a transport that is already starting or active is a   *)
(* no-op: the state is unchanged, no new session or socket is created, and *)
(* the session and socket already held are not replaced.                   *)
(***************************************************************************)
C24_ConnectWhileActiveIsNoOp ==
    (call.op = "connect" /\ call.before.state \in {"starting", "active"})
        => /\ net.state = call.before.state
           /\ net.opened = call.before.opened
           /\ net.session = call.before.session
           /\ net.socket = call.before.socket

(***************************************************************************)
(* C25: after any sequence of connect() and disconnect() calls, connects   *)
(* that failed part-way and repeated disconnects included, each completed  *)
(* disconnect() leaves the transport inactive with every session and       *)
(* socket it ever opened closed exactly once.                              *)
(***************************************************************************)
C25_DisconnectReleasesOnce ==
    (call.op = "disconnect" /\ net.get = "new")
        => /\ net.state = "inactive"
           /\ \A i \in 1..Len(net.opened) : net.opened[i].closes = 1

\* The part of C25 the code keeps: the transport is inactive and holds
\* nothing, and nothing was closed twice.
C25_InactiveNoneClosedTwice ==
    (call.op = "disconnect" /\ net.get = "new")
        => /\ net.state = "inactive"
           /\ net.session = 0 /\ net.socket = 0
           /\ \A i \in 1..Len(net.opened) : net.opened[i].closes <= 1

(***************************************************************************)
(* C26: under any sequence of network outcomes (API errors, timeouts,      *)
(* socket failures, failed reconnects) get() of the Slack and Telegram     *)
(* transports yields a pair or ends normally; it never raises an           *)
(* exception to the router that consumes it.                               *)
(***************************************************************************)
C26_GetNeverRaises == net.kind # "none" => net.get # "raised"

(***************************************************************************)
(* C27: if disconnect() runs while get() is suspended (awaiting the next   *)
(* inbound event, a long-poll response, or in the reconnect or retry       *)
(* delay), get() ends its sequence without raising, and the transport      *)
(* holds no session or socket after disconnect() has completed.            *)
(***************************************************************************)
C27_DisconnectEndsGet ==
    (net.kind # "none" /\ net.cut # "no" /\ net.after /\ net.state = "inactive")
        => /\ net.get = "ended"
           /\ net.session = 0 /\ net.socket = 0

\* The part of C27 the code keeps: nothing is held after disconnect() and
\* the resumption of get().
C27_NothingHeld ==
    (net.kind # "none" /\ net.cut # "no" /\ net.after /\ net.state = "inactive")
        => (net.session = 0 /\ net.socket = 0)

(***************************************************************************)
(* C28: within the consumption loop of one transport, messages reach the   *)
(* hook in the order the transport yielded them, and the command triggered *)
(* by message N has completed (returned, answered with help, or failed and *)
(* been contained) before on_receive is entered for message N+1: when      *)
(* on_receive returns the command is over, and on_receive is entered only  *)
(* when the call before it has returned.                                   *)
(***************************************************************************)
\* The command the message names is over: its arguments were rejected and
\* the help sent, or its body ran once and returned, was answered with the
\* help, or failed and was logged.
Completed ==
    \A b \in Named(config, hookState, call.sent) :
        IF Rejected(config, call.sent, b.cmd)
        THEN ran = <<>> /\ Len(outbox) = 1 /\ result.raised = None
        ELSE /\ Len(ran) = 1 /\ ran[1].hook = b.hook /\ ran[1].name = b.cmd.name
             /\ result.raised = None
             /\ (b.hook # "cmd" /\ call.does = Returns)
                    => (logged = <<>> /\ outbox = <<>>)
             /\ (b.hook # "cmd" /\ call.does = RaisesBadUsage)
                    => (logged = <<>> /\ Len(outbox) = 1)
             /\ (b.hook # "cmd" /\ call.does.kind = "raise"
                 /\ call.does.cls # "BadUsage")
                    => logged = <<call.does.cls>>

C29_PutReturnsList ==
    (call.op = "put" /\ result.raised = None) => result.returned = "list"

\* The part of C29 the code keeps: put of the Telegram transport.
C29_TelegramPutReturnsList ==
    (call.op = "put" /\ result.raised = None /\ net.kind = "telegram")
        => result.returned = "list"

(***************************************************************************)
(* C30: prefixes are tried in configured order and only the first one that *)
(* matches is used: the command name and the trailing argument are taken   *)
(* from the text after that prefix, and a later, longer prefix that also   *)
(* matches is never tried, even when the name derived from the first match *)
(* resolves to no command.                                                 *)
(***************************************************************************)
\* The configured prefixes the text starts with, by position
MatchingPrefixes(cfg, text) ==
    {i \in 1..Len(cfg.prefix) : StartsWith(Lower(text), cfg.prefix[i])}

\* The text after the prefix at position i, split into name and trailing text
RawAfter(cfg, text, i) == SplitMax1(Drop(text, Len(cfg.prefix[i])))

\* The name after the prefix at position i is that of a resolved command
Resolves(cfg, text, i) ==
    /\ RawAfter(cfg, text, i) # <<>>
    /\ \E b \in commands(config, hookState, call.sent.channel, call.sent.user).cmds :
           b.cmd.name = Lower(RawAfter(cfg, text, i)[1])

C30_FirstMatchingPrefixOnly ==
    (/\ Receiving /\ Considered
     /\ MatchingPrefixes(config, call.sent.text.text) # {}
     /\ commands(config, hookState, call.sent.channel, call.sent.user).kind = "ok"
     /\ RawAfter(config, call.sent.text.text,
                 Least(MatchingPrefixes(config, call.sent.text.text))) # <<>>)
        => /\ ~Resolves(config, call.sent.text.text,
                        Least(MatchingPrefixes(config, call.sent.text.text)))
                  => (ran = <<>> /\ outbox = <<>> /\ result.raised = None)
           /\ \A k \in 1..Len(ran) :
                  /\ ran[k].name
                         = Lower(RawAfter(config, call.sent.text.text,
                                          Least(MatchingPrefixes(config,
                                                    call.sent.text.text)))[1])
                  /\ ran[k].args
                         = parse(CommandOf(ran[k].hook, ran[k].name),
                                 TrailingOf(RawAfter(config, call.sent.text.text,
                                     Least(MatchingPrefixes(config,
                                               call.sent.text.text))))).args

\* "!hh" under the prefixes "!" and "!h": the name after "!" is "hh", no
\* command, while the name after "!h" is that of the help command.
C30_Witness ==
    /\ Receiving /\ Considered
    /\ Cardinality(MatchingPrefixes(config, call.sent.text.text)) = 2
    /\ ~Resolves(config, call.sent.text.text, 1)
    /\ Resolves(config, call.sent.text.text, 2)
    /\ ran = <<>> /\ outbox = <<>> /\ result.raised = None

(***************************************************************************)
(* C31: commands() fails with the ambiguous-name ConfigError only when two *)
(* distinct commands share a name: when the same command of the same hook  *)
(* is reached through more than one path (two matching groups both listing *)
(* the hook, or a group listing the hook and also a set naming the         *)
(* command), resolution succeeds and the command appears once.             *)
(***************************************************************************)
\* Two distinct <<hook, command>> pairs of one name are both offered.
SharedName(cfg, states, channel, user) ==
    \E x \in MatchingOffers(cfg, states, channel, user) :
    \E y \in MatchingOffers(cfg, states, channel, user) :
        x # y /\ x[2].name = y[2].name

C31_ConfigErrorOnlyForDistinctCommands ==
    (Resolving /\ result.kind = "ConfigError")
        => SharedName(config, hookState, call.channel, call.user)

\* The part of C31 the code keeps: a mapping that is returned holds each
\* offered command once.
C31_MappingHoldsEachOnce ==
    (Resolving /\ result.kind = "ok") =>
        \A a \in result.cmds : \A b \in result.cmds :
            (a.hook = b.hook /\ a.cmd = b.cmd) => a = b

(***************************************************************************)
(* C32: a primary message from a user whose text is exactly a configured   *)
(* prefix, or a prefix followed only by whitespace, is ignored by          *)
(* on_receive: no command runs, nothing is sent and no exception is        *)
(* raised.                                                                 *)
(***************************************************************************)
\* The text is its first matching prefix and then nothing but whitespace.
PrefixOnly(cfg, text) ==
    /\ FirstPrefix(cfg.prefix, Lower(text), 1) # 0
    /\ \A k \in (Len(cfg.prefix[FirstPrefix(cfg.prefix, Lower(text), 1)]) + 1)
                    ..Len(text) : IsSpace(text[k])

C32_PrefixOnlyIgnored ==
    (Receiving /\ Considered /\ PrefixOnly(config, call.sent.text.text))
        => (ran = <<>> /\ outbox = <<>> /\ result.raised = None)

\* The part of C32 the code keeps: no command runs and nothing is sent.
C32_PrefixOnlyRunsNothing ==
    (Receiving /\ Considered /\ PrefixOnly(config, call.sent.text.text))
        => (ran = <<>> /\ outbox = <<>> /\ logged = <<>>)

(***************************************************************************)
(* C33: Telegram from_entities preserves the text: for any text and any    *)
(* list of entities within it (in any order, adjacent, nested or           *)
(* overlapping), the texts of the emitted segments, joined in the order of *)
(* emission, are the input text: no character is dropped, duplicated or    *)
(* reordered.                                                              *)
(***************************************************************************)
RECURSIVE Joined(_)
Joined(segments) ==
    IF segments = <<>> THEN <<>>
    ELSE Head(segments).text \o Joined(Tail(segments))

C33_TextPreserved == Annotating => Joined(result) = call.text

\* The part of C33 the code keeps: entities listed by ascending offset that
\* do not overlap leave the text as it was.
C33_AscendingDisjointPreserved ==
    (/\ Annotating
     /\ \A k \in 1..(Len(call.entities) - 1) :
            call.entities[k].offset + call.entities[k].length
                <= call.entities[k + 1].offset)
        => Joined(result) = call.text

(***************************************************************************)
(* C34: when a matching group includes a set that names a command of a     *)
(* hook that is not active, commands() still succeeds: that hook           *)
(* contributes nothing and the commands of the other hooks are returned.   *)
(***************************************************************************)
\* A set of the group names a command of a hook of the host that is not
\* active.
NamesInactive(cfg, states, group) ==
    \E j \in 1..Len(group.sets) :
        /\ group.sets[j] \in DOMAIN cfg.sets
        /\ \E m \in 1..Len(cfg.sets[group.sets[j]]) :
               /\ cfg.sets[group.sets[j]][m][1] \in Hooks
               /\ states[cfg.sets[group.sets[j]][m][1]] # "active"
               /\ cfg.sets[group.sets[j]][m][2] # <<>>

SetOfInactiveHook ==
    /\ Resolving
    /\ ~MalformedFor(config, call.channel)
    /\ \E gi \in 1..Len(config.groups) :
           /\ Matches(config.groups[gi], call.channel)
           /\ NamesInactive(config, hookState, config.groups[gi])

C34_SetOfInactiveHookSucceeds ==
    SetOfInactiveHook =>
        /\ result.kind # "KeyError"
        /\ (~SharedName(config, hookState, call.channel, call.user)
            /\ result.kind = "ok") =>
               {<<b.hook, b.cmd>> : b \in result.cmds}
                   = MatchingOffers(config, hookState, call.channel, call.user)

\* What the code does: the lookup of the command in the empty table of the
\* hook ends the call with KeyError.
C34_SetOfInactiveHookRaisesKeyError ==
    SetOfInactiveHook => result.kind = "KeyError"

(***************************************************************************)
(* C35: the Telegram polling offset: _offset is 0 initially and after      *)
(* every disconnect(); while get() runs it never decreases; and once an    *)
(* update with id u has been processed, with or without a message,         *)
(* _offset is at least u + 1, so the next getUpdates request never asks    *)
(* again for an update already processed.                                  *)
(***************************************************************************)
\* The updates the last step of get() had before it: the rest of the batch
\* after a yield, or the result that has just arrived.
Pending ==
    IF call.before.get = "yielded" THEN call.before.batch
    ELSE IF call.event.type = "updates" THEN call.event.updates
    ELSE <<>>

\* The updates the last step of get() has processed
Processed == SubSeq(Pending, 1, Len(Pending) - Len(net.batch))

C35_OffsetNeverBehind ==
    net.kind = "telegram" =>
        /\ call.op \in {"none", "disconnect"} => net.offset = 0
        /\ call.op = "get" =>
               /\ net.offset >= call.before.offset
               /\ \A i \in 1..Len(Processed) : net.offset >= Processed[i].id + 1
               /\ (net.get = "poll" /\ net.retry = 0) =>
                      /\ net.asked = net.offset
                      /\ \A i \in 1..Len(Pending) : net.asked > Pending[i].id

\* get() has gone through a result whose first update carries no message
\* and whose second one does, and asks for updates again.
C35_Witness ==
    /\ net.kind = "telegram" /\ call.op = "get"
    /\ call.before.get = "yielded" /\ Len(call.before.batch) = 1
    /\ call.before.offset = call.before.batch[1].id
    /\ call.before.offset > call.before.asked
    /\ net.get = "poll" /\ net.asked = call.before.batch[1].id + 1

(***************************************************************************)
(* C36: the Slack user cache: after connect and any sequence of inbound    *)
(* events (team_join and user_change included) every value of the          *)
(* transport's user cache is a User entity, so the user of every message   *)
(* decoded afterwards is a User entity or none.                            *)
(***************************************************************************)
C36_UserCacheHoldsUsers ==
    net.kind = "slack" => net.users \subseteq {"SlackUser"}

\* The part of C36 the code keeps: the cache a successful connect() leaves
\* holds User entities only.
C36_ConnectCachesUsers ==
    (net.kind = "slack" /\ call.op = "connect" /\ result.raised = None)
        => net.users = {"SlackUser"}

(***************************************************************************)
(* C37: Slack put(): for a message with any number of file attachments the *)
(* returned list holds no id twice, and at most one id for each uploaded   *)
(* file plus one id for the posted message.                                *)
(***************************************************************************)
SlackPutReturned ==
    net.kind = "slack" /\ call.op = "put" /\ result.returned = "list"

C37_PutIdsDistinct ==
    SlackPutReturned =>
        /\ \A i \in 1..Len(result.ids) : \A j \in 1..Len(result.ids) :
               result.ids[i] = result.ids[j] => i = j
        /\ Len(result.ids) <= call.msg.files + 1

\* The part of C37 the code keeps: with one file at most the ids are
\* distinct and no more than the files and the posted message.
C37_OneFilePutIdsDistinct ==
    (SlackPutReturned /\ call.msg.files <= 1) =>
        /\ \A i \in 1..Len(result.ids) : \A j \in 1..Len(result.ids) :
               result.ids[i] = result.ids[j] => i = j
        /\ Len(result.ids) <= call.msg.files + 1

====
